---- MODULE Spec2Model ----
(***************************************************************************)
(* State-machine model of the M3C2 result comparison:                      *)
(*   - helper.sigDiff                      (src/src/helper.py)             *)
(*   - class Compare, current revision     (src/src/compare.py)            *)
(*   - class Compare, earlier revision     (src/src/compareCC_Py4d.py)     *)
(*                                                                         *)
(* A floating point value is a record                                      *)
(*   [t |-> "num", m |-> mantissa, d |-> denominator, e |-> exponent]      *)
(* standing for the double nearest to (m / d) * 10^(-e).  Inputs always    *)
(* have d = 1; the denominator only appears in the results of              *)
(* statistics.mean / median.  t = "nan" is the IEEE NaN, t = "none" is     *)
(* Python's None, t = "sqrt" stands for the double nearest to              *)
(* sqrt((m / d) * 10^(-e)) (statistics.stdev).  An operation returns a     *)
(* "num" only where the double the code computes is the double nearest to  *)
(* that decimal; t = "wide" stands for a number (not NaN) whose value the   *)
(* model does not follow: the result of an operation on binary64 that is   *)
(* not the double nearest to a decimal of MantissaDigits digits (or the    *)
(* int 0 sigDiff returns in its place), or the content of memory never     *)
(* written.  t = "int" is an int (the 0 of sigDiff), kept apart from the   *)
(* float 0.0 because the dtype=object arrays of the earlier class and the  *)
(* csv writer keep it; t = "str" is a str.                                 *)
(***************************************************************************)
EXTENDS Integers, Sequences, FiniteSets, TLC

VARIABLES
    input,     \* what main.py read: the two clouds and their optional attributes
    re,        \* Compare.re  (reference cloud, CloudCompare)
    cl,        \* Compare.cl  (other cloud, Py4dGeo)
    size,      \* Compare.size
    calc,      \* Compare.calc
    diffs,     \* Compare.diffs, a dict in insertion order
    nan_mode,  \* Compare.nan_mode
    slopes,    \* Compare.slopes
    aspects,   \* Compare.aspects
    statsFile, \* the file writeStatistics writes
    diffFile,  \* the file writeDiff writes
    cloudFile, \* the file writeCloud writes
    last,      \* the last call on the Compare object and how it ended
    nops,      \* number of calls made so far
    old,       \* the Compare object of the earlier revision (compareCC_Py4d.py)
    sig        \* harness for helper.sigDiff: the last call and its result

vars == <<input, re, cl, size, calc, diffs, nan_mode, slopes, aspects,
          statsFile, diffFile, cloudFile, last, nops, old, sig>>

objVars == <<re, cl, size, calc, diffs, nan_mode, slopes, aspects>>
fileVars == <<statsFile, diffFile, cloudFile>>

(***************************************************************************)
(* Bounds of the model and program constants                               *)
(***************************************************************************)
\* decimal digits a mantissa of the model may carry
MantissaDigits == 8

\* largest number of points of a cloud
MaxPoints == 3

\* largest number of calls made on one Compare object
MaxOps == 3

\* default of the parameter r of sigDiff (helper.py line 4)
DefaultR == 20

(***************************************************************************)
(* Values                                                                  *)
(***************************************************************************)
NaN  == [t |-> "nan",  m |-> 0, d |-> 1, e |-> 0]
Wide == [t |-> "wide", m |-> 0, d |-> 1, e |-> 0]
None == [t |-> "none", m |-> 0, d |-> 1, e |-> 0]
Zero == [t |-> "num",  m |-> 0, d |-> 1, e |-> 0]
\* the int 0 (a float is a "num"), and a str
IntZero == [t |-> "int", m |-> 0, d |-> 1, e |-> 0]
Str(s) == [t |-> "str", s |-> s]

IsNum(x) == x.t = "num"

RECURSIVE Pow10(_)
Pow10(n) == IF n <= 0 THEN 1 ELSE 10 * Pow10(n - 1)

RECURSIVE GCD(_, _)
GCD(a, b) == IF b = 0 THEN a ELSE GCD(b, a % b)

AbsInt(n) == IF n < 0 THEN -n ELSE n

\* canonical form: lowest terms, positive denominator, no trailing zero digit
\* in the mantissa while the exponent is positive, zero is 0/1 * 10^0
RECURSIVE Strip(_, _, _)
Strip(m, d, e) ==
    IF m = 0 THEN Zero
    ELSE IF e > 0 /\ m % 10 = 0 THEN Strip(m \div 10, d, e - 1)
    ELSE [t |-> "num", m |-> m, d |-> d, e |-> e]

\* factors 2 and 5 of the denominator are moved into the exponent, so that
\* 1/2 and 5 * 10^(-1) are the same record
RECURSIVE Decimalise(_, _, _)
Decimalise(m, d, e) ==
    IF d % 2 = 0 THEN Decimalise(m * 5, d \div 2, e + 1)
    ELSE IF d % 5 = 0 THEN Decimalise(m * 2, d \div 5, e + 1)
    ELSE Strip(m, d, e)

Frac(m, d, e) ==
    LET g == GCD(AbsInt(m), AbsInt(d))
        s == IF d < 0 THEN -1 ELSE 1
    IN  IF m = 0 THEN Zero
        ELSE Decimalise(s * (m \div g), s * (d \div g), e)

Num(m, e) == Frac(m, 1, e)

\* float(x) of a number x
Float(x) == IF x.t = "int" THEN Num(x.m, 0) ELSE x

\* mantissa of the float x written with exponent e (e >= x.e, x.d = 1)
Mant(x, e) == IF x.m = 0 THEN 0 ELSE x.m * Pow10(e - x.e)

MaxOf(a, b) == IF a >= b THEN a ELSE b
MinOf(a, b) == IF a <= b THEN a ELSE b

(***************************************************************************)
(* binary64 behind the decimals                                            *)
(***************************************************************************)
RECURSIVE Digits(_)
Digits(n) == IF n < 10 THEN 1 ELSE 1 + Digits(n \div 10)

RECURSIVE Pow5(_)
Pow5(n) == IF n <= 0 THEN 1 ELSE 5 * Pow5(n - 1)

\* 10^(Order(x) - 1) <= |x| < 10^Order(x), for x # 0 with d = 1
Order(x) == Digits(AbsInt(x.m)) - x.e

\* the decimal is a double: m / 10^e with 5^e dividing m
Dyadic(x) ==
    /\ x.t = "num"
    /\ x.d = 1
    /\ x.e <= 13
    /\ x.m % Pow5(x.e) = 0

\* x, written with exponent e, keeps a mantissa of MantissaDigits digits
Fits(x, e) == x.m = 0 \/ Digits(AbsInt(x.m)) + (e - x.e) <= MantissaDigits

\* |small| is below a quarter of the spacing of the doubles around big:
\* |small| / |big| < 10^(-18) < 2^(-55)
Negligible(small, big) ==
    /\ small.m # 0
    /\ big.m # 0
    /\ Order(big) - Order(small) >= 19

(* Natural numbers beyond the 32 bits of the integers at hand, as the
   sequence of their digits to the base 10^4, lowest digit first: the
   significand of a double has 53 bits. *)
BigBase == Pow10(4)

RECURSIVE BigOf(_)
BigOf(n) == IF n = 0 THEN <<>> ELSE <<n % BigBase>> \o BigOf(n \div BigBase)

\* x * k + c, for 1 <= k <= 10^5
RECURSIVE BigTimesPlus(_, _, _)
BigTimesPlus(x, k, c) ==
    IF x = <<>> THEN BigOf(c)
    ELSE LET v == x[1] * k + c
         IN  <<v % BigBase>> \o BigTimesPlus(Tail(x), k, v \div BigBase)
BigTimes(x, k) == BigTimesPlus(x, k, 0)

\* x * 2^k
RECURSIVE BigShift(_, _)
BigShift(x, k) == IF x = <<>> \/ k <= 0 THEN x ELSE BigShift(BigTimes(x, 2), k - 1)

BigLess(x, y) ==
    IF Len(x) # Len(y) THEN Len(x) < Len(y)
    ELSE \E i \in 1..Len(x) :
            /\ x[i] < y[i]
            /\ \A j \in (i + 1)..Len(x) : x[j] = y[j]

RECURSIVE BigTrim(_)
BigTrim(x) ==
    IF x # <<>> /\ x[Len(x)] = 0 THEN BigTrim(SubSeq(x, 1, Len(x) - 1)) ELSE x

\* x - y - b for x >= y + b, before the leading zeros are dropped
RECURSIVE BigBorrow(_, _, _)
BigBorrow(x, y, b) ==
    IF x = <<>> THEN <<>>
    ELSE LET v == x[1] - (IF y = <<>> THEN 0 ELSE y[1]) - b
         IN  <<(v + BigBase) % BigBase>>
             \o BigBorrow(Tail(x), IF y = <<>> THEN <<>> ELSE Tail(y),
                          IF v < 0 THEN 1 ELSE 0)
BigMinus(x, y) == BigTrim(BigBorrow(x, y, 0))

\* quotient and remainder of x by k, for 1 <= k <= 10^5
RECURSIVE BigDiv(_, _)
BigDiv(x, k) ==
    IF x = <<>> THEN [q |-> <<>>, r |-> 0]
    ELSE LET hi == BigDiv(Tail(x), k)
             v == hi.r * BigBase + x[1]
         IN  [q |-> <<v \div k>> \o hi.q, r |-> v % k]

BigOdd(x) == x # <<>> /\ x[1] % 2 = 1

RECURSIVE BigPow5(_)
BigPow5(e) == IF e <= 0 THEN BigOf(1) ELSE BigTimes(BigPow5(e - 1), 5)

\* 2^52 = 4503599627370496 and 2^59 = 576460752303423488
TwoPow52 == <<496, 2737, 5996, 4503>>
TwoPow59 == <<3488, 342, 7523, 6460, 57>>

\* a or b doubled until b / 2 <= a < b: the quotient is (a / b) * 2^j
RECURSIVE Scaled(_, _, _)
Scaled(a, b, j) ==
    IF ~BigLess(a, b) THEN Scaled(a, BigTimes(b, 2), j + 1)
    ELSE IF BigLess(BigTimes(a, 2), b) THEN Scaled(BigTimes(a, 2), b, j - 1)
    ELSE [a |-> a, b |-> b, j |-> j]

\* q + rho / b is a * 2^s / b; once q has 53 bits it is the significand
\* before rounding and rho / b the part to be rounded
RECURSIVE Significand(_, _, _, _)
Significand(q, rho, b, s) ==
    IF ~BigLess(q, TwoPow52) THEN [q |-> q, rho |-> rho, s |-> s]
    ELSE LET d == BigTimes(rho, 2)
             c == ~BigLess(d, b)
         IN  Significand(BigTimesPlus(q, 2, IF c THEN 1 ELSE 0),
                         IF c THEN BigMinus(d, b) ELSE d, b, s + 1)

\* the part g.rho / b below the significand g.q rounds it up: it is above
\* one half, or it is one half and g.q is odd
RoundsUp(g, b) ==
    \/ BigLess(b, BigTimes(g.rho, 2))
    \/ (BigTimes(g.rho, 2) = b /\ BigOdd(g.q))

Nearest(g, b, j) ==
    IF g.rho = <<>> THEN [q |-> g.q, s |-> g.s - j, side |-> 0]
    ELSE IF RoundsUp(g, b)
    THEN [q |-> BigTimesPlus(g.q, 1, 1), s |-> g.s - j, side |-> 1]
    ELSE [q |-> g.q, s |-> g.s - j, side |-> -1]

Quotient(ab) == Nearest(Significand(<<>>, ab.a, ab.b, 0), ab.b, ab.j)

\* the double nearest to a / b (a, b > 0), ties to the even significand: its
\* value is q * 2^(-s), and side is the sign of (the double) - a / b
FloatQuotient(a, b) == Quotient(Scaled(a, b, 0))

\* the sign of float(m * 10^(-e)) - m * 10^(-e), m > 0, e >= 0: on which side
\* of the decimal the double lies that the conversion of the decimal gives
\* (0: the decimal is a double)
TieSide(m, e) == FloatQuotient(BigOf(m), BigPow5(e)).side

(***************************************************************************)
(* float arithmetic used by the source: a - b, abs(a), round(a, r)         *)
(***************************************************************************)
Neg(a) == IF IsNum(a) THEN [a EXCEPT !.m = -a.m] ELSE a

\* variant that adds where the source subtracts
SubAdded(a, b) ==
    IF a.t = "nan" \/ b.t = "nan" THEN NaN
    ELSE IF a.t = "wide" \/ b.t = "wide" THEN Wide
    ELSE IF b.m = 0 THEN a
    ELSE IF a.m = 0 THEN b
    ELSE IF a = b THEN Num(2 * a.m, a.e)
    ELSE IF Negligible(b, a) THEN a
    ELSE IF Negligible(a, b) THEN b
    ELSE LET e == MaxOf(a.e, b.e)
         IN  IF Dyadic(a) /\ Dyadic(b) /\ Fits(a, e) /\ Fits(b, e)
             THEN Num(Mant(a, e) + Mant(b, e), e)
             ELSE Wide

\* one decimal is twice the other, and so is its double
Twice(a, b) ==
    LET e == MaxOf(a.e, b.e)
    IN  Fits(a, e) /\ Fits(b, e) /\ Mant(a, e) = 2 * Mant(b, e)

\* a - b on two doubles; NaN propagates.  The result is followed where it is
\* the double of a decimal: an operand is 0, the operands are equal, one is
\* twice the other, one of them is too small to change the other, or both
\* are doubles exactly and so is their difference.
Sub(a, b) ==
    IF a.t = "nan" \/ b.t = "nan" THEN NaN
    ELSE IF a.t = "wide" \/ b.t = "wide" THEN Wide
    ELSE IF b.m = 0 THEN a
    ELSE IF a.m = 0 THEN Neg(b)
    ELSE IF a = b THEN Zero
    ELSE IF Twice(a, b) THEN b
    ELSE IF Twice(b, a) THEN Neg(a)
    ELSE IF Negligible(b, a) THEN a
    ELSE IF Negligible(a, b) THEN Neg(b)
    ELSE LET e == MaxOf(a.e, b.e)
         IN  IF Dyadic(a) /\ Dyadic(b) /\ Fits(a, e) /\ Fits(b, e)
             THEN Num(Mant(a, e) - Mant(b, e), e)
             ELSE Wide

Abs(a) == IF IsNum(a) /\ a.m < 0 THEN Neg(a) ELSE a

\* n / q rounded to the nearest integer, ties to the even neighbour (n >= 0)
RoundHalfEven(n, q) ==
    LET f == n \div q
        r == n % q
    IN  IF 2 * r < q THEN f
        ELSE IF 2 * r > q THEN f + 1
        ELSE IF f % 2 = 0 THEN f ELSE f + 1

\* |m| * 10^(-e) rounded to r < e decimals, as a multiple of 10^(-r): round()
\* rounds the value of the double, so a decimal half-way between two multiples
\* goes to the side on which its double lies, and to the even multiple when
\* the decimal is a double
RoundDigits(m, e, r) ==
    LET q == Pow10(e - r)
        f == m \div q
    IN  IF 2 * (m % q) # q THEN RoundHalfEven(m, q)
        ELSE IF TieSide(m, e) > 0 THEN f + 1
        ELSE IF TieSide(m, e) < 0 THEN f
        ELSE RoundHalfEven(m, q)

\* Python's round(x, r) on a float, r >= 0; NaN stays NaN
Round(x, r) ==
    IF x.t = "nan" THEN NaN
    ELSE IF x.t = "wide" THEN Wide
    ELSE IF r >= x.e THEN x
    ELSE LET k == x.e - r
         IN  IF k > Digits(AbsInt(x.m)) \/ k > 9 THEN Zero
             ELSE IF x.m >= 0 THEN Num(RoundDigits(x.m, x.e, r), r)
             ELSE Num(-RoundDigits(-x.m, x.e, r), r)

(***************************************************************************)
(* helper.sigDiff: "0 if ... else abs(...)" gives the int 0 or a float      *)
(***************************************************************************)
\* "c or None" used as a condition: None is falsy, so the condition is c
OrNone(c) == c \/ FALSE

\* variant returning the rounded difference instead of the unrounded one
sigDiffRounded(val1, val2, r) ==
    IF OrNone(Round(Abs(Sub(val1, val2)), r) = Zero)
    THEN IntZero
    ELSE Round(Abs(Sub(val1, val2)), r)

\* scalar form, helper.py line 18
sigDiff(val1, val2, r) ==
    IF OrNone(Round(Abs(Sub(val1, val2)), r) = Zero)
    THEN IntZero
    ELSE Abs(Sub(val1, val2))

\* indexed form, helper.py line 17; i is the 0-based Python index
sigDiffAt(val1, val2, i, r) ==
    IF OrNone(Round(Abs(Sub(val1[i + 1], val2[i + 1])), r) = Zero)
    THEN IntZero
    ELSE Abs(Sub(val1[i + 1], val2[i + 1]))

(***************************************************************************)
(* Python / NumPy helpers                                                  *)
(***************************************************************************)
RECURSIVE SumSeq(_)
SumSeq(q) == IF q = <<>> THEN 0 ELSE Head(q) + SumSeq(Tail(q))

\* a dict in insertion order: a sequence of [k |-> key, a |-> array]
EmptyDict == <<>>
Keys(d) == [i \in 1..Len(d) |-> d[i].k]
HasKey(d, k) == \E i \in 1..Len(d) : d[i].k = k
Get(d, k) == d[CHOOSE i \in 1..Len(d) : d[i].k = k].a
\* d[k] = a: an existing key keeps its position
Put(d, k, a) ==
    IF HasKey(d, k)
    THEN [i \in 1..Len(d) |-> IF d[i].k = k THEN [k |-> k, a |-> a] ELSE d[i]]
    ELSE Append(d, [k |-> k, a |-> a])

\* column c of an N x 3 array: np.transpose(arr)[c]
Col(arr, c) == [i \in 1..Len(arr) |-> arr[i][c]]

\* NumPy broadcasting of two 1-d arrays of lengths la and lb
CanBroadcast(la, lb) == la = lb \/ la = 1 \/ lb = 1
BLen(la, lb) == IF la = lb THEN la ELSE IF la = 1 THEN lb ELSE la

\* variant that subtracts the first entry of a2 from every entry of a1
AbsDiffFirst(a1, a2) ==
    [i \in 1..BLen(Len(a1), Len(a2)) |->
        Abs(Sub(a1[IF Len(a1) = 1 THEN 1 ELSE i], a2[1]))]

\* variant that reports 0 where an operand is NaN
AbsDiffZeroed(a1, a2) ==
    [i \in 1..BLen(Len(a1), Len(a2)) |->
        LET x == a1[IF Len(a1) = 1 THEN 1 ELSE i]
            y == a2[IF Len(a2) = 1 THEN 1 ELSE i]
        IN  IF x.t = "nan" \/ y.t = "nan" THEN Zero ELSE Abs(Sub(x, y))]

\* variant that keeps the sign of the difference
AbsDiffSigned(a1, a2) ==
    [i \in 1..BLen(Len(a1), Len(a2)) |->
        Sub(a1[IF Len(a1) = 1 THEN 1 ELSE i], a2[IF Len(a2) = 1 THEN 1 ELSE i])]

\* abs(a1 - a2) on two NumPy arrays that broadcast
AbsDiff(a1, a2) ==
    [i \in 1..BLen(Len(a1), Len(a2)) |->
        Abs(Sub(a1[IF Len(a1) = 1 THEN 1 ELSE i], a2[IF Len(a2) = 1 THEN 1 ELSE i]))]

IsNaN(x) == x.t = "nan"

\* np.isnan(x) raises TypeError on None
HasNone(arr) == \E i \in 1..Len(arr) : arr[i].t = "none"

\* [x for x in arr if np.isnan(x) == False]
NotNaN(x) == ~IsNaN(x)
DropNaN(arr) == SelectSeq(arr, NotNaN)

(***************************************************************************)
(* statistics.mean / median / stdev on a list of floats                    *)
(***************************************************************************)
Sign(x) == IF x.m > 0 THEN 1 ELSE IF x.m < 0 THEN -1 ELSE 0

\* a < b on two doubles given by their decimals
Less(a, b) ==
    IF Sign(a) # Sign(b) THEN Sign(a) < Sign(b)
    ELSE IF Sign(a) = 0 THEN FALSE
    ELSE IF Order(a) # Order(b)
    THEN (IF Sign(a) > 0 THEN Order(a) < Order(b) ELSE Order(a) > Order(b))
    ELSE LET e == MaxOf(a.e, b.e) IN Mant(a, e) < Mant(b, e)

RECURSIVE Insert(_, _)
Insert(x, q) ==
    IF q = <<>> THEN <<x>>
    ELSE IF Less(Head(q), x) THEN <<Head(q)>> \o Insert(x, Tail(q))
    ELSE <<x>> \o q

RECURSIVE Sorted(_)
Sorted(q) == IF q = <<>> THEN <<>> ELSE Insert(Head(q), Sorted(Tail(q)))

HasNaN(li) == \E i \in 1..Len(li) : li[i].t = "nan"
AllNum(li) == \A i \in 1..Len(li) : li[i].t = "num" /\ li[i].d = 1
AllEqual(li) == \A i \in 1..Len(li) : li[i] = li[1]
Nonzero(li) == { i \in 1..Len(li) : li[i].m # 0 }

\* the list with the items put to 0 that are too small to show in a double
\* next to the largest item
Settled(li) ==
    LET big == CHOOSE i \in Nonzero(li) :
                   \A j \in Nonzero(li) : Order(li[j]) <= Order(li[i])
    IN  [i \in 1..Len(li) |->
            IF Nonzero(li) # {} /\ Negligible(li[i], li[big]) THEN Zero
            ELSE li[i]]

MaxExp(li) ==
    LET es == { li[i].e : i \in 1..Len(li) }
    IN  IF es = {} THEN 0 ELSE CHOOSE e \in es : \A f \in es : e >= f
Mants(q) == [i \in 1..Len(q) |-> Mant(q[i], MaxExp(q))]
Squares(q) == [i \in 1..Len(q) |-> q[i] * q[i]]

\* the items are doubles exactly and their sum is followed exactly: the
\* fractions statistics adds up are the decimals
Exact(q) ==
    /\ \A i \in 1..Len(q) : Dyadic(q[i]) /\ Fits(q[i], MaxExp(q))
    /\ Len(q) < 8

\* no item takes away from another
OneSided(q) ==
    \/ \A i \in 1..Len(q) : q[i].m >= 0
    \/ \A i \in 1..Len(q) : q[i].m <= 0

\* the squares of the mantissas and their sums stay within 32 bits
SmallMants(q) ==
    \A i \in 1..Len(q) : AbsInt(Mants(q)[i]) * Len(q) < 10000

ISqrt(n) == CHOOSE k \in 0..n : k * k <= n /\ (k + 1) * (k + 1) > n
IsSquare(n) == ISqrt(n) * ISqrt(n) = n

\* sqrt((m / d) * 10^(-e)), as a number when the root is rational
SqrtVal(m, d, e) ==
    LET g == GCD(m, d)
        mm == m \div g
        dd == d \div g
    IN  IF m = 0 THEN Zero
        ELSE IF e % 2 = 0 /\ IsSquare(mm) /\ IsSquare(dd)
        THEN Frac(ISqrt(mm), ISqrt(dd), e \div 2)
        ELSE [t |-> "sqrt", m |-> mm, d |-> dd, e |-> e]

\* statistics.mean: the exact sum of the doubles, divided by n, as a double
Mean(li) ==
    LET q == Settled(li)
        n == Len(li)
    IN  IF HasNaN(li) THEN NaN
        ELSE IF ~AllNum(li) THEN Wide
        ELSE IF AllEqual(li) THEN li[1]
        ELSE IF Exact(q) /\ (q = li \/ OneSided(q))
        THEN Frac(SumSeq(Mants(q)), n, MaxExp(q))
        ELSE IF Cardinality(Nonzero(q)) = 1 /\ n \in { 2, 4, 8 }
        THEN LET x == q[CHOOSE i \in Nonzero(q) : TRUE]
             IN  Frac(x.m, n, x.e)
        ELSE Wide

\* variant: the lower of the two middle items of a list of even length
MedianLow(li) ==
    IF ~AllNum(li) THEN Wide ELSE Sorted(li)[(Len(li) + 1) \div 2]

\* statistics.median: the middle item, or (a + b) / 2 of the two middle items
Median(li) ==
    LET s == Sorted(li)
        n == Len(li)
        a == s[n \div 2]
        b == s[n \div 2 + 1]
        e == MaxOf(a.e, b.e)
    IN  IF ~AllNum(li) THEN Wide
        ELSE IF n % 2 = 1 THEN s[(n + 1) \div 2]
        ELSE IF a = b THEN a
        ELSE IF a.m = 0 \/ Negligible(a, b) THEN Frac(b.m, 2, b.e)
        ELSE IF b.m = 0 \/ Negligible(b, a) THEN Frac(a.m, 2, a.e)
        ELSE IF Dyadic(a) /\ Dyadic(b) /\ Fits(a, e) /\ Fits(b, e)
        THEN Frac(Mant(a, e) + Mant(b, e), 2, e)
        ELSE Wide

\* the root of the variance with the divisor d, where it is followed
RootOfVariance(li, d) ==
    LET q == Settled(li)
        ms == Mants(q)
        n == Len(li)
        r == SqrtVal(n * SumSeq(Squares(ms)) - SumSeq(ms) * SumSeq(ms),
                     n * d, 2 * MaxExp(q))
    IN  IF HasNaN(li) THEN NaN
        ELSE IF ~AllNum(li) THEN Wide
        ELSE IF AllEqual(li) THEN Zero
        ELSE IF ~(Exact(q) /\ SmallMants(q)) THEN Wide
        ELSE IF q = li THEN r
        ELSE Wide

\* variant: population standard deviation, N in the denominator
StdevPopulation(li) == RootOfVariance(li, Len(li))

\* sample standard deviation, N - 1 in the denominator
Stdev(li) == RootOfVariance(li, Len(li) - 1)

(***************************************************************************)
(* vec_calc: transform, getSlope, getAspect.  The module is not part of    *)
(* the sources at hand; it is modelled from section 4.1 of the             *)
(* specification, for axis-parallel unit vectors.                          *)
(***************************************************************************)
One == Num(1, 0)
VecNaN == <<NaN, NaN, NaN>>
VecHasNaN(v) == \E c \in 1..3 : IsNaN(v[c])
VecIsZero(v) == \A c \in 1..3 : v[c] = Zero
Ints(v) == [c \in 1..3 |-> v[c].m]
Cross(a, b) == << a[2] * b[3] - a[3] * b[2],
                  a[3] * b[1] - a[1] * b[3],
                  a[1] * b[2] - a[2] * b[1] >>
Dot(a, b) == a[1] * b[1] + a[2] * b[2] + a[3] * b[3]

\* the other normal expressed relative to the reference normal: the shortest
\* rotation that takes the reference normal to +Z, applied to the other normal
transform(ref, oth) ==
    IF VecHasNaN(ref) \/ VecHasNaN(oth) \/ VecIsZero(ref) \/ VecIsZero(oth)
    THEN VecNaN
    ELSE LET a == Ints(ref)
             b == Ints(oth)
             k == Cross(a, <<0, 0, 1>>)
             r == IF a = <<0, 0, 1>> THEN b
                  ELSE IF a = <<0, 0, -1>> THEN <<b[1], -b[2], -b[3]>>
                  ELSE LET c == Cross(k, b)
                       IN  [i \in 1..3 |-> c[i] + k[i] * Dot(k, b)]
         IN  [i \in 1..3 |-> Num(r[i], 0)]

\* variant that reports 0 for a vector without a direction
getSlopeDefault(v) ==
    IF VecHasNaN(v) THEN Zero ELSE Num(90 * (1 - v[3].m), 0)

\* angle to the vertical axis in degrees, [0, 180]
getSlope(v) ==
    IF VecHasNaN(v) THEN NaN ELSE Num(90 * (1 - v[3].m), 0)

\* azimuth of the horizontal projection in degrees from +Y, [0, 360)
getAspect(v) ==
    IF VecHasNaN(v) THEN NaN
    ELSE IF v[1].m = 1 THEN Num(90, 0)
    ELSE IF v[2].m = -1 THEN Num(180, 0)
    ELSE IF v[1].m = -1 THEN Num(270, 0)
    ELSE Zero

(***************************************************************************)
(* Inputs: what main.py reads from the two result files                    *)
(***************************************************************************)
T(m) == Num(m, 1)                 \* m tenths
Tiny(m) == Num(m, DefaultR + 1)   \* m * 10^(-21)

VecZ == <<Zero, Zero, One>>
VecX == <<One, Zero, Zero>>

PtA == [pts |-> <<T(10), T(20), T(30)>>, normals |-> VecZ,
        dist |-> T(10), lod |-> T(5),
        spread |-> <<T(5), T(5)>>, samples |-> <<Num(10, 0), Num(12, 0)>>]
PtB == [pts |-> <<T(20), T(20), T(35)>>, normals |-> VecX,
        dist |-> T(25), lod |-> T(15),
        spread |-> <<T(5), T(15)>>, samples |-> <<Num(11, 0), Num(12, 0)>>]

\* one point of the reference cloud with the point of the other cloud at the
\* same index
PairSame    == [re |-> PtA, cl |-> PtA]
PairDiffer  == [re |-> [PtA EXCEPT !.dist = T(20)], cl |-> PtB]
PairReNaN   == [re |-> [PtA EXCEPT !.dist = NaN, !.lod = NaN], cl |-> PtA]
PairClNaN   == [re |-> PtA, cl |-> [PtA EXCEPT !.dist = NaN, !.lod = NaN]]
PairBothNaN == [re |-> [PtA EXCEPT !.dist = NaN, !.lod = NaN],
                cl |-> [PtA EXCEPT !.dist = NaN, !.lod = NaN,
                                   !.normals = VecNaN]]
PairTiny    == [re |-> [PtA EXCEPT !.dist = Zero],
                cl |-> [PtA EXCEPT !.dist = Tiny(2)]]

\* the pairs a cloud is cut from, in the order of their points
Master ==
    << PairSame, PairDiffer, PairBothNaN, PairReNaN, PairClNaN, PairTiny >>

\* n consecutive points of Master from position start on, wrapping around
Window(start, n) ==
    [k \in 1..n |-> Master[((start + k - 2) % Len(Master)) + 1]]

\* every run of at most n consecutive points of Master
PairSeqs(n) ==
    { Window(start, k) : start \in 1..Len(Master), k \in 0..n }

\* "equal": both clouds have the points of the pairs; "re_extra" / "cl_extra":
\* that cloud holds one more point than the other
Shapes == { "equal", "re_extra", "cl_extra" }

\* which of the two files carry STD_cloud1/2 and Npoints_cloud1/2
Avails ==
    { [spread |-> "none", samples |-> "none"],
      [spread |-> "both", samples |-> "both"],
      [spread |-> "re",   samples |-> "both"] }

PairNone == [given |-> FALSE, a1 |-> <<>>, a2 |-> <<>>]

SidePoints(ps, side, shape) ==
    [i \in 1..Len(ps) |-> IF side = "re" THEN ps[i].re ELSE ps[i].cl]
    \o (IF shape = side \o "_extra" THEN <<PtA>> ELSE <<>>)

Cloud(points) ==
    [pts     |-> [i \in 1..Len(points) |-> points[i].pts],
     normals |-> [i \in 1..Len(points) |-> points[i].normals],
     dist    |-> [i \in 1..Len(points) |-> points[i].dist],
     lod     |-> [i \in 1..Len(points) |-> points[i].lod]]

\* main.reorder: (STD_cloud1, STD_cloud2) if the file has them, else None
SpreadOf(points, has) ==
    IF has
    THEN [given |-> TRUE,
          a1 |-> [i \in 1..Len(points) |-> points[i].spread[1]],
          a2 |-> [i \in 1..Len(points) |-> points[i].spread[2]]]
    ELSE PairNone

\* main.reorder: (Npoints_cloud1, Npoints_cloud2) if the file has them
SamplesOf(points, has) ==
    IF has
    THEN [given |-> TRUE,
          a1 |-> [i \in 1..Len(points) |-> points[i].samples[1]],
          a2 |-> [i \in 1..Len(points) |-> points[i].samples[2]]]
    ELSE PairNone

MkInput(ps, shape, av) ==
    LET rp == SidePoints(ps, "re", shape)
        cp == SidePoints(ps, "cl", shape)
    IN  [re |-> Cloud(rp), cl |-> Cloud(cp),
         re_spread  |-> SpreadOf(rp, av.spread \in { "both", "re" }),
         cl_spread  |-> SpreadOf(cp, av.spread \in { "both", "cl" }),
         re_samples |-> SamplesOf(rp, av.samples \in { "both", "re" }),
         cl_samples |-> SamplesOf(cp, av.samples \in { "both", "cl" }),
         numpy      |-> 1]

\* the major version of the NumPy installed; the sources do not pin it
NumPyVersions == { 1, 2 }
WithNumPy(in, v) == [in EXCEPT !.numpy = v]

Inputs ==
    { WithNumPy(MkInput(ps, shape, av), v) :
        ps \in PairSeqs(MaxPoints), shape \in Shapes, av \in Avails,
        v \in NumPyVersions }

(***************************************************************************)
(* class Compare (compare.py)                                              *)
(***************************************************************************)
\* a key of self.re / self.cl that update() may add later
NoAttr == [present |-> FALSE, given |-> FALSE, a1 |-> <<>>, a2 |-> <<>>]
Attr(pair) ==
    [present |-> TRUE, given |-> pair.given, a1 |-> pair.a1, a2 |-> pair.a2]

NoneArray(n) == [i \in 1..n |-> None]

NoStats == [state |-> "absent", header |-> <<>>, mean |-> <<>>,
            median |-> <<>>, std_dev |-> <<>>, nan_rows |-> <<>>]
NoDiff  == [state |-> "absent", header |-> <<>>, head_line |-> <<>>, rows |-> <<>>]
NoCloud == [state |-> "absent", fmt |-> "none", header |-> <<>>, rows |-> <<>>]

Done(op, outcome) == [op |-> op, calc_before |-> calc, outcome |-> outcome]

\* Compare.__init__
CompareInit(in) ==
    /\ re = [pts |-> in.re.pts, dist |-> in.re.dist, lod |-> in.re.lod,
             normals |-> in.re.normals, spread |-> NoAttr, num_samples |-> NoAttr]
    /\ cl = [pts |-> in.cl.pts, dist |-> in.cl.dist, lod |-> in.cl.lod,
             normals |-> in.cl.normals, spread |-> NoAttr, num_samples |-> NoAttr]
    /\ diffs = EmptyDict
    /\ nan_mode = <<>>
    /\ size = Len(in.re.dist)
    /\ calc = FALSE
    /\ slopes = NoneArray(Len(in.re.dist))
    /\ aspects = NoneArray(Len(in.re.dist))

\* what switch.get returns for a text that is no key of switch: None
NoMode == -1

\* str() of a pair of NumPy booleans: the repr of its elements, which is
\* True / False up to NumPy 1 and np.True_ / np.False_ from NumPy 2 on
StrBool(b) ==
    IF input.numpy >= 2
    THEN (IF b THEN "np.True_" ELSE "np.False_")
    ELSE (IF b THEN "True" ELSE "False")
StrPair(a, b) == "(" \o StrBool(a) \o ", " \o StrBool(b) \o ")"

\* variant with the values of the two one-sided entries exchanged
switchSwapped(key) ==
    IF key = "(False, False)" THEN 0
    ELSE IF key = "(False, True)" THEN 2
    ELSE IF key = "(True, False)" THEN 1
    ELSE IF key = "(True, True)" THEN 3
    ELSE NoMode

\* the dict switch of calc_differences: (cloud is nan, reference is nan)
switch(key) ==
    IF key = "(False, False)" THEN 0
    ELSE IF key = "(False, True)" THEN 1
    ELSE IF key = "(True, False)" THEN 2
    ELSE IF key = "(True, True)" THEN 3
    ELSE NoMode

\* for pair in zip(np.isnan(cl dist), np.isnan(re dist)): switch.get(str(pair))
NanModes(cl_dist, re_dist) ==
    [i \in 1..MinOf(Len(cl_dist), Len(re_dist)) |->
        switch(StrPair(IsNaN(cl_dist[i]), IsNaN(re_dist[i])))]

BaseKeys == <<"X", "Y", "Z", "NX", "NY", "NZ", "Distance", "LODetection">>

\* the eight assignments self.diffs[...] = abs(... - ...)
BaseDiffs(d) ==
    LET d1 == Put(d,  "X",  AbsDiff(Col(cl.pts, 1), Col(re.pts, 1)))
        d2 == Put(d1, "Y",  AbsDiff(Col(cl.pts, 2), Col(re.pts, 2)))
        d3 == Put(d2, "Z",  AbsDiff(Col(cl.pts, 3), Col(re.pts, 3)))
        d4 == Put(d3, "NX", AbsDiff(Col(cl.normals, 1), Col(re.normals, 1)))
        d5 == Put(d4, "NY", AbsDiff(Col(cl.normals, 2), Col(re.normals, 2)))
        d6 == Put(d5, "NZ", AbsDiff(Col(cl.normals, 3), Col(re.normals, 3)))
        d7 == Put(d6, "Distance", AbsDiff(cl.dist, re.dist))
    IN  Put(d7, "LODetection", AbsDiff(cl.lod, re.lod))

\* the loop over range(size): index i is reached only while the other cloud
\* has a normal at i
Filled == MinOf(size, Len(cl.normals))
Angle(which, v) == IF which = "slope" THEN getSlope(v) ELSE getAspect(v)

Angles(arr, which) ==
    [i \in 1..size |->
        IF i <= Filled THEN Angle(which, transform(re.normals[i], cl.normals[i]))
        ELSE arr[i]]

\* Compare.calc_differences
calc_differences ==
    /\ nops < MaxOps
    /\ nops' = nops + 1
    /\ IF ~CanBroadcast(Len(cl.dist), Len(re.dist))
       THEN \* abs(x1 - x2) raises: operands could not be broadcast together
            /\ calc' = TRUE
            /\ last' = Done("calc_differences", "ValueError")
            /\ UNCHANGED <<diffs, nan_mode, slopes, aspects>>
       ELSE /\ calc' = TRUE
            /\ diffs' = BaseDiffs(diffs)
            /\ nan_mode' = nan_mode \o NanModes(cl.dist, re.dist)
            /\ slopes' = Angles(slopes, "slope")
            /\ aspects' = Angles(aspects, "aspect")
            /\ last' = Done("calc_differences",
                            IF Filled < size THEN "IndexError" ELSE "ok")
    /\ UNCHANGED <<input, re, cl, size, fileVars, old, sig>>

\* the guard "if not self.calc: print(...); return" of the consumers
Rejected(op) ==
    /\ ~calc
    /\ last' = Done(op, "rejected")

\* the parameters of Map_Diff.__init__ (map_diff.py line 16)
MapDiffParams == { "mapped_vals", "coords", "title", "unit" }

\* the keywords mapDiff passes to Map_Diff (compare.py lines 116-117)
MapDiffKeywords == { "point_size", "cmap" }

\* Compare.mapDiff: diffs['Distance'] is read first, then Map_Diff is called
\* with keywords its constructor does not take
mapDiff ==
    /\ nops < MaxOps
    /\ nops' = nops + 1
    /\ \/ Rejected("mapDiff")
       \/ /\ calc
          /\ last' = Done("mapDiff",
                          IF ~HasKey(diffs, "Distance") THEN "KeyError"
                          ELSE IF ~(MapDiffKeywords \subseteq MapDiffParams)
                          THEN "TypeError"
                          ELSE "ok")
    /\ UNCHANGED <<input, objVars, fileVars, old, sig>>

\* Compare.plotNormDiff
plotNormDiff ==
    /\ nops < MaxOps
    /\ nops' = nops + 1
    /\ \/ Rejected("plotNormDiff")
       \/ /\ calc
          /\ last' = Done("plotNormDiff", "ok")
    /\ UNCHANGED <<input, objVars, fileVars, old, sig>>

\* Compare.plotNormHist
plotNormHist ==
    /\ nops < MaxOps
    /\ nops' = nops + 1
    /\ \/ Rejected("plotNormHist")
       \/ /\ calc
          /\ last' = Done("plotNormHist", "ok")
    /\ UNCHANGED <<input, objVars, fileVars, old, sig>>

\* the body shared by spreadDiff and sampleDiff: cl[0] is subscripted first,
\* None is not subscriptable
PairDiffs(d, k1, k2, cp, rp) ==
    Put(Put(d, k1, AbsDiff(cp.a1, rp.a1)), k2, AbsDiff(cp.a2, rp.a2))
PairOutcome(cp, rp) ==
    IF ~cp.given \/ ~rp.given THEN "TypeError"
    ELSE IF ~CanBroadcast(Len(cp.a1), Len(rp.a1)) THEN "ValueError"
    ELSE "ok"

\* Compare.spreadDiff(re_spread, cl_spread, path, plot), called as in main.py
spreadDiff ==
    /\ nops < MaxOps
    /\ nops' = nops + 1
    /\ re' = [re EXCEPT !.spread = Attr(input.re_spread)]
    /\ cl' = [cl EXCEPT !.spread = Attr(input.cl_spread)]
    /\ diffs' = IF PairOutcome(input.cl_spread, input.re_spread) = "ok"
                THEN PairDiffs(diffs, "Spread1", "Spread2",
                               input.cl_spread, input.re_spread)
                ELSE diffs
    /\ last' = Done("spreadDiff", PairOutcome(input.cl_spread, input.re_spread))
    /\ UNCHANGED <<input, size, calc, nan_mode, slopes, aspects, fileVars, old, sig>>

\* Compare.sampleDiff(re_samples, cl_samples, path, plot), called as in main.py
sampleDiff ==
    /\ nops < MaxOps
    /\ nops' = nops + 1
    /\ re' = [re EXCEPT !.num_samples = Attr(input.re_samples)]
    /\ cl' = [cl EXCEPT !.num_samples = Attr(input.cl_samples)]
    /\ diffs' = IF PairOutcome(input.cl_samples, input.re_samples) = "ok"
                THEN PairDiffs(diffs, "NumSamples1", "NumSamples2",
                               input.cl_samples, input.re_samples)
                ELSE diffs
    /\ last' = Done("sampleDiff", PairOutcome(input.cl_samples, input.re_samples))
    /\ UNCHANGED <<input, size, calc, nan_mode, slopes, aspects, fileVars, old, sig>>

(***************************************************************************)
(* Compare.writeStatistics                                                 *)
(***************************************************************************)
\* what an element of np.empty(s, dtype=np.float64) may hold before it is
\* assigned: whatever the memory held, any number or NaN
Garbage == { Wide, NaN }

StatS == Len(diffs) + 2
StatKeys == <<"Statistics">> \o Keys(diffs) \o <<"Aspect", "Slope">>

\* the list summarised in iteration i of "for i in range(1, s)"
StatList(i) ==
    IF i < StatS - 2 THEN Get(diffs, StatKeys[i + 1])
    ELSE IF i = StatS - 2 THEN aspects
    ELSE slopes

\* mean[i] etc.; None stored into a float64 array reads back as nan
Statistic(stat, li) ==
    IF stat = "mean" THEN Mean(li)
    ELSE IF stat = "median" THEN Median(li)
    ELSE Stdev(li)

\* one pass of the loop body on the array arr
CellOf(stat, arr) ==
    LET li == DropNaN(arr)
    IN  IF Len(li) > 1 THEN Statistic(stat, li) ELSE NaN

StatCell(stat, i) == CellOf(stat, StatList(i))

\* the cells the loop assigns: mean[1] .. mean[s - 1]
StatCells(stat) == [i \in 1..(StatS - 1) |-> StatCell(stat, i)]

\* the array after the loop: element 0 is never assigned
StatArray(cells, g) == <<g>> \o cells

CountMode(mode) == Len(SelectSeq(nan_mode, LAMBDA m : m = mode))

\* the sign of x - y
BigSign(x, y) == IF x = y THEN 0 ELSE IF BigLess(x, y) THEN -1 ELSE 1

\* the sign of sig53 * 2^e - 100 * count / n
SideOf(sig53, e, count, n) ==
    BigSign(BigShift(BigTimes(sig53, n), e), BigShift(BigOf(100 * count), -e))

\* the quotient dm.q and the remainder dm.r of a division by 2^t, rounded to
\* the nearest integer, ties to the even one
RoundedTo(dm, t) ==
    BigTimesPlus(BigTrim(dm.q), 1,
                 IF 2 * dm.r > 2 ^ t \/ (2 * dm.r = 2 ^ t /\ BigOdd(dm.q))
                 THEN 1 ELSE 0)

\* the product prod * 2^(-s) rounded to a double: 53 of its 59 or 60 bits
ProductSide(prod, s, count, n) ==
    IF BigLess(prod, TwoPow59)
    THEN SideOf(RoundedTo(BigDiv(prod, 2 ^ 6), 6), 6 - s, count, n)
    ELSE SideOf(RoundedTo(BigDiv(prod, 2 ^ 7), 7), 7 - s, count, n)

PercentOf(f, count, n) == ProductSide(BigTimes(f.q, 100), f.s, count, n)

\* the sign of (the double count / n * 100) - (100 * count / n): the quotient
\* is rounded to a double, and so is its product with 100
PercentSide(count, n) ==
    PercentOf(FloatQuotient(BigOf(count), BigOf(n)), count, n)

\* f'{count/n*100:.2f} %' as a number of hundredths of a percent: the double
\* is written with two decimals, so a ratio half-way between two hundredths
\* goes to the side its double lies on (count < 200000, n <= 100000)
PercentText(count, n) ==
    IF 2 * ((count * 10000) % n) # n
    THEN RoundHalfEven(count * 10000, n)
    ELSE IF PercentSide(count, n) > 0 THEN ((count * 10000) \div n) + 1
    ELSE IF PercentSide(count, n) < 0 THEN (count * 10000) \div n
    ELSE RoundHalfEven(count * 10000, n)

\* variant whose one-sided rows leave out the points NaN in both
NanRowsOnly(n) ==
    << [label |-> "Nan-Values in CloudCompare",
        pct |-> PercentText(CountMode(1), n)],
       [label |-> "Nan-Values in Py4dGeo",
        pct |-> PercentText(CountMode(2), n)],
       [label |-> "Nan-Values in Both",
        pct |-> PercentText(CountMode(3), n)] >>

\* the three rows written last (lines 310-312)
NanRows(n) ==
    << [label |-> "Nan-Values in CloudCompare",
        pct |-> PercentText(CountMode(3) + CountMode(1), n)],
       [label |-> "Nan-Values in Py4dGeo",
        pct |-> PercentText(CountMode(3) + CountMode(2), n)],
       [label |-> "Nan-Values in Both",
        pct |-> PercentText(CountMode(3), n)] >>

writeStatistics ==
    /\ nops < MaxOps
    /\ nops' = nops + 1
    /\ \/ /\ Rejected("writeStatistics")
          /\ UNCHANGED statsFile
       \/ \* np.isnan(None) raises before the file is opened
          /\ calc
          /\ \E i \in 1..(StatS - 1) : HasNone(StatList(i))
          /\ last' = Done("writeStatistics", "TypeError")
          /\ UNCHANGED statsFile
       \/ /\ calc
          /\ \A i \in 1..(StatS - 1) : ~HasNone(StatList(i))
          /\ LET means   == StatCells("mean")
                 medians == StatCells("median")
                 stdevs  == StatCells("stdev")
                 rows    == IF size = 0 THEN <<>> ELSE NanRows(size)
             IN  \E g1 \in Garbage, g2 \in Garbage, g3 \in Garbage :
                   statsFile' =
                     [state    |-> IF size = 0 THEN "partial" ELSE "complete",
                      header   |-> StatKeys,
                      mean     |-> StatArray(means, g1),
                      median   |-> StatArray(medians, g2),
                      std_dev  |-> StatArray(stdevs, g3),
                      nan_rows |-> rows]
          /\ last' = Done("writeStatistics",
                          IF size = 0 THEN "ZeroDivisionError" ELSE "ok")
    /\ UNCHANGED <<input, objVars, diffFile, cloudFile, old, sig>>

(***************************************************************************)
(* Compare.writeDiff                                                       *)
(***************************************************************************)
DiffHeader ==
    <<"X Coord", "Y Coord", "Z Coord">> \o Keys(diffs)
    \o <<"Aspect", "Slope", "Nan-Mode">>

\* the keys a row reads, in the order the row lists them
RowKeys ==
    BaseKeys
    \o (IF HasKey(diffs, "Spread1") THEN <<"Spread1", "Spread2">> ELSE <<>>)
    \o (IF HasKey(diffs, "NumSamples1")
        THEN <<"NumSamples1", "NumSamples2">> ELSE <<>>)

RowReadable(i) ==
    /\ \A j \in 1..Len(RowKeys) :
          HasKey(diffs, RowKeys[j]) /\ Len(Get(diffs, RowKeys[j])) >= i
    /\ Len(nan_mode) >= i

(* csv.writer(..., quoting=csv.QUOTE_NONNUMERIC): a number is written
   unquoted as its str(), everything else quoted; None is the empty text.
   A text is the sequence of its characters, a label one token. *)
DigitChars == <<"0", "1", "2", "3", "4", "5", "6", "7", "8", "9">>

RECURSIVE DigitsOf(_)
DigitsOf(n) ==
    IF n < 10 THEN <<DigitChars[n + 1]>>
    ELSE DigitsOf(n \div 10) \o <<DigitChars[(n % 10) + 1]>>

Zeros(k) == [i \in 1..k |-> "0"]

\* variant that writes a float with four decimals
FloatTextFixed(v) ==
    IF v.t = "nan" THEN <<"n", "a", "n">>
    ELSE IF v.t \in { "wide", "sqrt" } THEN <<"...">>
    ELSE LET n == IF v.e > MantissaDigits THEN 0
                  ELSE RoundHalfEven(AbsInt(v.m) * 10000, Pow10(v.e) * v.d)
             ds == DigitsOf(n % 10000)
         IN  DigitsOf(n \div 10000) \o <<".">> \o Zeros(4 - Len(ds)) \o ds

\* str() of a float: 'nan', positional notation from 1e-4 on, else d.ddde-XX;
\* the digits of a number the model does not follow, and those of a square
\* root or of a fraction that is no decimal, are left open ("...")
FloatText(v) ==
    IF v.t = "nan" THEN <<"n", "a", "n">>
    ELSE IF v.t \in { "wide", "sqrt" } \/ v.d # 1 THEN <<"...">>
    ELSE LET ds == DigitsOf(AbsInt(v.m))
             k == Len(ds)
         IN  (IF v.m < 0 THEN <<"-">> ELSE <<>>)
             \o (IF v.m = 0 THEN <<"0", ".", "0">>
                 ELSE IF k - v.e < -3
                 THEN <<ds[1]>>
                      \o (IF k > 1 THEN <<".">> \o SubSeq(ds, 2, k) ELSE <<>>)
                      \o <<"e", "-">>
                      \o (IF v.e - k + 1 < 10 THEN <<"0">> ELSE <<>>)
                      \o DigitsOf(v.e - k + 1)
                 ELSE IF v.e = 0 THEN ds \o <<".", "0">>
                 ELSE IF k > v.e
                 THEN SubSeq(ds, 1, k - v.e) \o <<".">> \o SubSeq(ds, k - v.e + 1, k)
                 ELSE <<"0", ".">> \o Zeros(v.e - k) \o ds)

CsvField(v) ==
    IF v.t = "none" THEN [quoted |-> TRUE, text |-> <<>>]
    ELSE IF v.t = "str" THEN [quoted |-> TRUE, text |-> <<v.s>>]
    ELSE IF v.t = "int"
    THEN [quoted |-> FALSE,
          text |-> (IF v.m < 0 THEN <<"-">> ELSE <<>>) \o DigitsOf(AbsInt(v.m))]
    ELSE [quoted |-> FALSE, text |-> FloatText(v)]
CsvInt(n) ==
    IF n = NoMode THEN [quoted |-> TRUE, text |-> <<>>]
    ELSE [quoted |-> FALSE, text |-> DigitsOf(n)]
CsvLabel(s) == [quoted |-> TRUE, text |-> <<s>>]
CsvLine(vals) == [c \in 1..Len(vals) |-> CsvField(vals[c])]

DiffRow(i) ==
    LET vals == re.pts[i]
                \o [j \in 1..Len(RowKeys) |-> Get(diffs, RowKeys[j])[i]]
                \o <<aspects[i], slopes[i]>>
    IN  [vals |-> vals, nan_mode |-> nan_mode[i],
         line |-> CsvLine(vals) \o <<CsvInt(nan_mode[i])>>]

\* rows written before the loop ends or raises
RowsWritten ==
    CHOOSE n \in 0..size :
        /\ \A i \in 1..n : RowReadable(i)
        /\ n = size \/ ~RowReadable(n + 1)

writeDiff ==
    /\ nops < MaxOps
    /\ nops' = nops + 1
    /\ \/ /\ Rejected("writeDiff")
          /\ UNCHANGED diffFile
       \/ /\ calc
          /\ diffFile' =
               [state  |-> IF RowsWritten = size THEN "complete" ELSE "partial",
                header |-> DiffHeader,
                head_line |-> [j \in 1..Len(DiffHeader) |-> CsvLabel(DiffHeader[j])],
                rows   |-> [i \in 1..RowsWritten |-> DiffRow(i)]]
          /\ last' = Done("writeDiff",
                          IF RowsWritten = size THEN "ok"
                          ELSE IF ~HasKey(diffs, "X") THEN "KeyError"
                          ELSE "IndexError")
    /\ UNCHANGED <<input, objVars, statsFile, cloudFile, old, sig>>

(***************************************************************************)
(* Compare.writeCloud, file_handle.write_las, file_handle.write_xyz       *)
(***************************************************************************)
Extensions == { ".laz", ".xyz", ".csv" }

CloudKeys(cc_mode) ==
    IF cc_mode
    THEN <<"M3C2__distance", "distance__uncertainty", "STD_cloud1",
           "STD_cloud2", "Npoints_cloud1", "Npoints_cloud2",
           "NormalX", "NormalY", "NormalZ">>
    ELSE <<"distance", "lodetection", "spread1", "spread2", "num_samples1",
           "num_samples2", "nx", "ny", "nz">>

\* the dict "attributes": file key and the key of diffs it is taken from
CloudAttributes(cc_mode) ==
    LET keys == CloudKeys(cc_mode)
    IN  << [k |-> keys[1], a |-> Get(diffs, "Distance")],
           [k |-> keys[2], a |-> Get(diffs, "LODetection")] >>
        \o (IF HasKey(diffs, "Spread1")
            THEN << [k |-> keys[3], a |-> Get(diffs, "Spread1")],
                    [k |-> keys[4], a |-> Get(diffs, "Spread2")] >>
            ELSE <<>>)
        \o (IF HasKey(diffs, "NumSamples1")
            THEN << [k |-> keys[5], a |-> Get(diffs, "NumSamples1")],
                    [k |-> keys[6], a |-> Get(diffs, "NumSamples2")] >>
            ELSE <<>>)
        \o << [k |-> keys[7], a |-> Get(diffs, "NX")],
              [k |-> keys[8], a |-> Get(diffs, "NY")],
              [k |-> keys[9], a |-> Get(diffs, "NZ")] >>

CloudRow(points, attributes, i) ==
    points[i] \o [j \in 1..Len(attributes) |-> attributes[j].a[i]]

\* rows write_xyz completes before an attribute array runs out
XyzRows(points, attributes) ==
    CHOOSE n \in 0..Len(points) :
        /\ \A i \in 1..n : \A j \in 1..Len(attributes) : Len(attributes[j].a) >= i
        /\ \/ n = Len(points)
           \/ \E j \in 1..Len(attributes) : Len(attributes[j].a) < n + 1

\* file_handle.write_xyz
write_xyz(points, attributes) ==
    LET n == XyzRows(points, attributes)
    IN  [state  |-> IF n = Len(points) THEN "complete" ELSE "partial",
         fmt    |-> "xyz",
         header |-> <<"X", "Y", "Z">> \o Keys(attributes),
         rows   |-> [i \in 1..n |-> CloudRow(points, attributes, i)]]

\* file_handle.write_las succeeds when every attribute has one value per point
\* (type(vals[0]) and the assignment las[key] = vals raise otherwise)
LasWritable(points, attributes) ==
    \A j \in 1..Len(attributes) :
        Len(attributes[j].a) = Len(points) /\ Len(points) > 0

\* file_handle.write_las
write_las(points, attributes) ==
    [state  |-> "complete",
     fmt    |-> "las",
     header |-> <<"X", "Y", "Z">> \o Keys(attributes),
     rows   |-> [i \in 1..Len(points) |-> CloudRow(points, attributes, i)]]

writeCloud ==
    /\ nops < MaxOps
    /\ nops' = nops + 1
    /\ \E extension \in Extensions, cc_mode \in BOOLEAN :
        \/ \* self.diffs['Distance'] on a dict without the key
           /\ ~HasKey(diffs, "Distance")
           /\ last' = Done("writeCloud", "KeyError")
           /\ UNCHANGED cloudFile
        \/ /\ HasKey(diffs, "Distance")
           /\ extension = ".laz"
           /\ IF LasWritable(re.pts, CloudAttributes(cc_mode))
              THEN /\ cloudFile' = write_las(re.pts, CloudAttributes(cc_mode))
                   /\ last' = Done("writeCloud", "ok")
              ELSE /\ last' = Done("writeCloud", "LasError")
                   /\ UNCHANGED cloudFile
        \/ /\ HasKey(diffs, "Distance")
           /\ extension = ".xyz"
           /\ cloudFile' = write_xyz(re.pts, CloudAttributes(cc_mode))
           /\ last' = Done("writeCloud",
                           IF cloudFile'.state = "complete" THEN "ok"
                           ELSE "IndexError")
        \/ /\ HasKey(diffs, "Distance")
           /\ extension = ".csv"
           /\ last' = Done("writeCloud", "unsupported")
           /\ UNCHANGED cloudFile
    /\ UNCHANGED <<input, objVars, statsFile, diffFile, old, sig>>

(***************************************************************************)
(* class Compare of the earlier script (compareCC_Py4d.py), held in "old"   *)
(***************************************************************************)
\* Compare.__init__ of compareCC_Py4d.py; "x != None" is true for a tuple
CCPy4dInit(in) ==
    LET spread_set == in.re_spread.given
        sample_set == in.re_samples.given
        keys == BaseKeys
                \o (IF spread_set THEN <<"Spread1", "Spread2">> ELSE <<>>)
                \o (IF sample_set THEN <<"NumSamples1", "NumSamples2">> ELSE <<>>)
        n == Len(in.re.pts)
    IN  [re |-> [pts |-> in.re.pts, dist |-> in.re.dist, lod |-> in.re.lod,
                 normals |-> in.re.normals,
                 spread |-> IF spread_set THEN Attr(in.re_spread) ELSE NoAttr,
                 num_samples |-> IF sample_set THEN Attr(in.re_samples)
                                 ELSE NoAttr],
         cl |-> [pts |-> in.cl.pts, dist |-> in.cl.dist, lod |-> in.cl.lod,
                 normals |-> in.cl.normals,
                 spread |-> IF spread_set THEN Attr(in.cl_spread) ELSE NoAttr,
                 num_samples |-> IF sample_set THEN Attr(in.cl_samples)
                                 ELSE NoAttr],
         diffs |-> [j \in 1..Len(keys) |-> [k |-> keys[j], a |-> NoneArray(n)]],
         spread_set |-> spread_set,
         sample_set |-> sample_set,
         size |-> n,
         slopes |-> NoneArray(n),
         aspects |-> NoneArray(n)]

\* the two operands of the statement that assigns self.diffs[k][i]; ok is
\* false where the statement subscripts None
CCPy4dOperands(o, k) ==
    CASE k = "X"  -> [ok |-> TRUE, v1 |-> Col(o.cl.pts, 1), v2 |-> Col(o.re.pts, 1)]
      [] k = "Y"  -> [ok |-> TRUE, v1 |-> Col(o.cl.pts, 2), v2 |-> Col(o.re.pts, 2)]
      [] k = "Z"  -> [ok |-> TRUE, v1 |-> Col(o.cl.pts, 3), v2 |-> Col(o.re.pts, 3)]
      [] k = "NX" -> [ok |-> TRUE, v1 |-> Col(o.cl.normals, 1),
                      v2 |-> Col(o.re.normals, 1)]
      [] k = "NY" -> [ok |-> TRUE, v1 |-> Col(o.cl.normals, 2),
                      v2 |-> Col(o.re.normals, 2)]
      [] k = "NZ" -> [ok |-> TRUE, v1 |-> Col(o.cl.normals, 3),
                      v2 |-> Col(o.re.normals, 3)]
      [] k = "Distance"    -> [ok |-> TRUE, v1 |-> o.cl.dist, v2 |-> o.re.dist]
      [] k = "LODetection" -> [ok |-> TRUE, v1 |-> o.cl.lod, v2 |-> o.re.lod]
      [] k = "Spread1" -> [ok |-> o.cl.spread.given /\ o.re.spread.given,
                           v1 |-> o.cl.spread.a1, v2 |-> o.re.spread.a1]
      [] k = "Spread2" -> [ok |-> o.cl.spread.given /\ o.re.spread.given,
                           v1 |-> o.cl.spread.a2, v2 |-> o.re.spread.a2]
      [] k = "NumSamples1" ->
            [ok |-> o.cl.num_samples.given /\ o.re.num_samples.given,
             v1 |-> o.cl.num_samples.a1, v2 |-> o.re.num_samples.a1]
      [] k = "NumSamples2" ->
            [ok |-> o.cl.num_samples.given /\ o.re.num_samples.given,
             v1 |-> o.cl.num_samples.a2, v2 |-> o.re.num_samples.a2]

\* statement number p of the loop: key j of iteration i (both 1-based)
CCPy4dIter(o, p) == ((p - 1) \div Len(o.diffs)) + 1
CCPy4dKey(o, p) == o.diffs[((p - 1) % Len(o.diffs)) + 1].k

\* the statement runs without IndexError or TypeError
CCPy4dRuns(o, p) ==
    LET ops == CCPy4dOperands(o, CCPy4dKey(o, p))
        i == CCPy4dIter(o, p)
    IN  ops.ok /\ i <= Len(ops.v1) /\ i <= Len(ops.v2)

\* the number of assignments to diffs made before the loop ends or raises
CCPy4dDone(o) ==
    LET total == o.size * Len(o.diffs)
    IN  CHOOSE p \in 0..total :
            /\ \A q \in 1..p : CCPy4dRuns(o, q)
            /\ p = total \/ ~CCPy4dRuns(o, p + 1)

CCPy4dOutcome(o) ==
    LET p == CCPy4dDone(o)
    IN  IF p = o.size * Len(o.diffs) THEN "ok"
        ELSE IF ~CCPy4dOperands(o, CCPy4dKey(o, p + 1)).ok THEN "TypeError"
        ELSE "IndexError"

\* self.diffs after the loop has made "done" assignments
CCPy4dDiffs(o, done) ==
    [j \in 1..Len(o.diffs) |->
        [k |-> o.diffs[j].k,
         a |-> [i \in 1..o.size |->
                  IF (i - 1) * Len(o.diffs) + j <= done
                  THEN LET ops == CCPy4dOperands(o, o.diffs[j].k)
                       IN  sigDiffAt(ops.v1, ops.v2, i - 1, DefaultR)
                  ELSE o.diffs[j].a[i]]]]

\* self.slopes / self.aspects: set at the end of each completed iteration
CCPy4dAngles(o, arr, done, which) ==
    [i \in 1..o.size |->
        IF i * Len(o.diffs) <= done
        THEN Angle(which, transform(o.re.normals[i], o.cl.normals[i]))
        ELSE arr[i]]

\* Compare.calc_differences of compareCC_Py4d.py
CCPy4dCalcDifferences ==
    /\ nops < MaxOps
    /\ nops' = nops + 1
    /\ LET done == CCPy4dDone(old)
       IN  old' = [old EXCEPT
                     !.diffs = CCPy4dDiffs(old, done),
                     !.slopes = CCPy4dAngles(old, old.slopes, done, "slope"),
                     !.aspects = CCPy4dAngles(old, old.aspects, done, "aspect")]
    /\ last' = Done("compareCC_Py4d.calc_differences", CCPy4dOutcome(old))
    /\ UNCHANGED <<input, objVars, fileVars, sig>>

(***************************************************************************)
(* Compare.writeStatistics and Compare.writeDiff of compareCC_Py4d.py: the  *)
(* arrays have dtype=object and keep None, the int 0 and the labels         *)
(***************************************************************************)
Floats(li) == [i \in 1..Len(li) |-> Float(li[i])]
AllInt(li) == \A i \in 1..Len(li) : li[i].t = "int"

\* sorted(li)[n // 2] where the median of li is zero: sorted() keeps the
\* items that compare equal in the order of li
MiddleZero(li) ==
    LET below == Len(SelectSeq(li, LAMBDA x : Less(Float(x), Zero)))
        zeros == SelectSeq(li, LAMBDA x : Float(x) = Zero)
    IN  zeros[(Len(li) \div 2) - below + 1]

\* statistics.mean / median / stdev of a list of floats and ints: the mean of
\* ints is an int, the median of an odd number of items is an item, the
\* standard deviation is a float
CCPy4dStatistic(stat, li) ==
    IF stat = "mean"
    THEN IF AllInt(li) THEN IntZero ELSE Mean(Floats(li))
    ELSE IF stat = "median"
    THEN IF Len(li) % 2 = 1 /\ Median(Floats(li)) = Zero
         THEN MiddleZero(li) ELSE Median(Floats(li))
    ELSE Stdev(Floats(li))

CCPy4dStatKeys(o) == <<"Statistics">> \o Keys(o.diffs) \o <<"Aspect", "Slope">>

\* the array read in iteration i of "for i in range(1, s)", s = len(diffs) + 3
CCPy4dStatList(o, i) ==
    IF i < Len(o.diffs) + 1 THEN Get(o.diffs, CCPy4dStatKeys(o)[i + 1])
    ELSE IF i = Len(o.diffs) + 1 THEN o.aspects
    ELSE o.slopes

\* mean[i], median[i] or std_dev[i] after one pass of the loop body
CCPy4dCell(stat, arr) ==
    LET li == DropNaN(arr)
    IN  IF Len(li) > 1 THEN CCPy4dStatistic(stat, li) ELSE None

\* one of the arrays mean, median, std_dev after the loop
CCPy4dStatRow(o, label, stat) ==
    <<Str(label)>>
    \o [i \in 1..(Len(o.diffs) + 2) |-> CCPy4dCell(stat, CCPy4dStatList(o, i))]

CCPy4dWriteStatistics ==
    /\ nops < MaxOps
    /\ nops' = nops + 1
    /\ IF \E i \in 1..(Len(old.diffs) + 2) : HasNone(CCPy4dStatList(old, i))
       THEN \* np.isnan(None) raises before the file is opened
            /\ last' = Done("compareCC_Py4d.writeStatistics", "TypeError")
            /\ UNCHANGED statsFile
       ELSE /\ statsFile' =
                 [state    |-> "complete",
                  header   |-> CCPy4dStatKeys(old),
                  mean     |-> CCPy4dStatRow(old, "Mean", "mean"),
                  median   |-> CCPy4dStatRow(old, "Median", "median"),
                  std_dev  |-> CCPy4dStatRow(old, "Standard Deviation", "stdev"),
                  nan_rows |-> <<>>]
            /\ last' = Done("compareCC_Py4d.writeStatistics", "ok")
    /\ UNCHANGED <<input, objVars, diffFile, cloudFile, old, sig>>

CCPy4dDiffHeader(o) ==
    <<"X Coord", "Y Coord", "Z Coord">> \o Keys(o.diffs) \o <<"Aspect", "Slope">>

\* the keys a row reads, in the order the row lists them
CCPy4dRowKeys(o) ==
    BaseKeys
    \o (IF o.spread_set THEN <<"Spread1", "Spread2">> ELSE <<>>)
    \o (IF o.sample_set THEN <<"NumSamples1", "NumSamples2">> ELSE <<>>)

CCPy4dDiffRow(o, i) ==
    LET vals == o.re.pts[i]
                \o [j \in 1..Len(CCPy4dRowKeys(o)) |->
                       Get(o.diffs, CCPy4dRowKeys(o)[j])[i]]
                \o <<o.aspects[i], o.slopes[i]>>
    IN  [vals |-> vals, line |-> CsvLine(vals)]

\* no test of what calc_differences has done: the arrays are written as
\* they are
CCPy4dWriteDiff ==
    /\ nops < MaxOps
    /\ nops' = nops + 1
    /\ diffFile' =
         [state  |-> "complete",
          header |-> CCPy4dDiffHeader(old),
          head_line |-> [j \in 1..Len(CCPy4dDiffHeader(old)) |->
                           CsvLabel(CCPy4dDiffHeader(old)[j])],
          rows   |-> [i \in 1..old.size |-> CCPy4dDiffRow(old, i)]]
    /\ last' = Done("compareCC_Py4d.writeDiff", "ok")
    /\ UNCHANGED <<input, objVars, statsFile, cloudFile, old, sig>>

Init ==
    /\ input \in Inputs
    /\ CompareInit(input)
    /\ statsFile = NoStats
    /\ diffFile = NoDiff
    /\ cloudFile = NoCloud
    /\ last = [op |-> "__init__", calc_before |-> FALSE, outcome |-> "ok"]
    /\ nops = 0
    /\ old = CCPy4dInit(input)
    /\ sig = [form |-> "none", a |-> Zero, b |-> Zero, r |-> 0, res |-> Zero]

Next ==
    \/ calc_differences
    \/ mapDiff
    \/ plotNormDiff
    \/ plotNormHist
    \/ spreadDiff
    \/ sampleDiff
    \/ writeStatistics
    \/ writeDiff
    \/ writeCloud

Spec == Init /\ [][Next]_vars

\* the calls of the earlier script on its object, beside the calculations of
\* compare.py on the same inputs
CCPy4dNext ==
    \/ calc_differences
    \/ spreadDiff
    \/ sampleDiff
    \/ CCPy4dCalcDifferences
    \/ CCPy4dWriteStatistics
    \/ CCPy4dWriteDiff

CCPy4dSpec == Init /\ [][CCPy4dNext]_vars

\* the run of three points with the same coordinates and normals in both
\* clouds and the distances 1.0, 2.0, NaN against 1.0, 2.5, NaN
PairHalf    == [re |-> [PtA EXCEPT !.dist = T(20)],
                cl |-> [PtA EXCEPT !.dist = T(25)]]
PairDistNaN == [re |-> [PtA EXCEPT !.dist = NaN],
                cl |-> [PtA EXCEPT !.dist = NaN]]
Scenario == << PairSame, PairHalf, PairDistNaN >>
Mirrored(ps) == [i \in 1..Len(ps) |-> [re |-> ps[i].cl, cl |-> ps[i].re]]

ScenarioInputs ==
    { WithNumPy(MkInput(ps, "equal", av), v) :
        ps \in { Scenario, Mirrored(Scenario) }, av \in Avails,
        v \in NumPyVersions }

ScenarioInit ==
    /\ input \in ScenarioInputs
    /\ CompareInit(input)
    /\ statsFile = NoStats
    /\ diffFile = NoDiff
    /\ cloudFile = NoCloud
    /\ last = [op |-> "__init__", calc_before |-> FALSE, outcome |-> "ok"]
    /\ nops = 0
    /\ old = CCPy4dInit(input)
    /\ sig = [form |-> "none", a |-> Zero, b |-> Zero, r |-> 0, res |-> Zero]

ScenarioSpec == ScenarioInit /\ [][Next]_vars

\* both ways of computing the differences, and the summary of the results
DiffNext ==
    \/ calc_differences
    \/ CCPy4dCalcDifferences
    \/ writeStatistics

DiffSpec == Init /\ [][DiffNext]_vars

(***************************************************************************)
(* Input domain of the sigDiff harness                                     *)
(***************************************************************************)
\* 0, 0.5, 1.0, 2.5 and the tiny values 2e-21, 4e-21, 3e-20, NaN
SigValues ==
    { Zero, Num(5, 1), Num(1, 0), Num(25, 1),
      Num(2, 21), Num(4, 21), Num(3, 20), NaN }

Precisions == { 0, 1, DefaultR, DefaultR + 1 }

NoSig == [form |-> "none", a |-> Zero, b |-> Zero, r |-> 0, res |-> Zero]

SigInit ==
    /\ input = MkInput(<<>>, "equal", [spread |-> "none", samples |-> "none"])
    /\ CompareInit(input)
    /\ statsFile = NoStats
    /\ diffFile = NoDiff
    /\ cloudFile = NoCloud
    /\ last = [op |-> "__init__", calc_before |-> FALSE, outcome |-> "ok"]
    /\ nops = 0
    /\ old = CCPy4dInit(input)
    /\ sig = NoSig

\* sigDiff(a, b, r=p)
SigScalar ==
    \E a \in SigValues, b \in SigValues, p \in Precisions :
        /\ sig' = [form |-> "scalar", a |-> a, b |-> b, r |-> p,
                   res |-> sigDiff(a, b, p)]
        /\ UNCHANGED <<input, objVars, fileVars, last, nops, old>>

\* sigDiff(val1, val2, i, r=p) on two arrays holding a and b at index i
SigIndexed ==
    \E a \in SigValues, b \in SigValues, p \in Precisions, i \in 0..1 :
        LET val1 == [j \in 1..2 |-> IF j = i + 1 THEN a ELSE NaN]
            val2 == [j \in 1..2 |-> IF j = i + 1 THEN b ELSE NaN]
        IN  /\ sig' = [form |-> "indexed", a |-> a, b |-> b, r |-> p,
                       res |-> sigDiffAt(val1, val2, i, p)]
            /\ UNCHANGED <<input, objVars, fileVars, last, nops, old>>

SigNext == SigScalar \/ SigIndexed

SigSpec == SigInit /\ [][SigNext]_vars

(***************************************************************************)
(* Input domain of the harness of the statistics of one array              *)
(***************************************************************************)
MaxArray == 4

\* 0.0, 0.5, 1.0, 2.0, 3.0, 5.0 and NaN
StatValues ==
    { Zero, Num(5, 1), Num(1, 0), Num(2, 0), Num(3, 0), Num(5, 0), NaN }

StatArrays ==
    UNION { [1..n -> StatValues] : n \in 0..MaxArray }

\* the body of the loop of writeStatistics on one array, once per behaviour
StatSummarise ==
    \E arr \in StatArrays :
        /\ sig.form = "none"
        /\ sig' = [form |-> "stats", arr |-> arr,
                   mean    |-> CellOf("mean", arr),
                   median  |-> CellOf("median", arr),
                   std_dev |-> CellOf("stdev", arr)]
        /\ UNCHANGED <<input, objVars, fileVars, last, nops, old>>

StatNext == StatSummarise

StatSpec == SigInit /\ [][StatNext]_vars

(***************************************************************************)
(* float(text), as file_handle.read_xyz and csv readers apply it           *)
(***************************************************************************)
RECURSIVE ToInt(_)
\* the number a string of digits stands for
ToInt(ds) ==
    IF ds = <<>> THEN 0
    ELSE ToInt(SubSeq(ds, 1, Len(ds) - 1)) * 10
         + (CHOOSE d \in 0..9 : DigitChars[d + 1] = ds[Len(ds)])

\* float(text)
ParseFloat(cs) ==
    IF cs = <<"n", "a", "n">> THEN NaN
    ELSE LET IndexOf(q, c) ==
                 IF \E i \in 1..Len(q) : q[i] = c
                 THEN CHOOSE i \in 1..Len(q) :
                          q[i] = c /\ \A j \in 1..(i - 1) : q[j] # c
                 ELSE 0
             neg  == cs # <<>> /\ cs[1] = "-"
             body == IF neg THEN Tail(cs) ELSE cs
             pe   == IndexOf(body, "e")
             mant == IF pe = 0 THEN body ELSE SubSeq(body, 1, pe - 1)
             expo == IF pe = 0 THEN <<>> ELSE SubSeq(body, pe + 1, Len(body))
             xneg == expo # <<>> /\ expo[1] = "-"
             x    == (IF xneg THEN -1 ELSE 1)
                     * ToInt(IF xneg THEN Tail(expo) ELSE expo)
             pd   == IndexOf(mant, ".")
             ip   == IF pd = 0 THEN mant ELSE SubSeq(mant, 1, pd - 1)
             fp   == IF pd = 0 THEN <<>> ELSE SubSeq(mant, pd + 1, Len(mant))
             m    == (IF neg THEN -1 ELSE 1) * ToInt(ip \o fp)
             e    == Len(fp) - x
         IN  IF e >= 0 THEN Num(m, e) ELSE Num(m * Pow10(-e), 0)

(***************************************************************************)
(* class Py4d_M3C2 (py4d_m3c2.py): read and write by file extension        *)
(* A path is the sequence of its characters.                               *)
(***************************************************************************)
\* out.las, out.laz, out.xyz, out.txt, out.csv, out.LAS, and the names atlas
\* and out without an extension
Py4dPaths ==
    { <<"o", "u", "t">> \o e :
        e \in { <<".", "l", "a", "s">>, <<".", "l", "a", "z">>,
                <<".", "x", "y", "z">>, <<".", "t", "x", "t">>,
                <<".", "c", "s", "v">>, <<>> } }
    \cup { <<"a", "t", "l", "a", "s">>, <<"o", "u", "t", ".", "L", "A", "S">> }

\* pathlib.Path(p).suffix for a bare file name: from the last dot on, empty
\* without a dot or when the dot comes first or last
PathSuffix(p) ==
    LET dots == { i \in 1..Len(p) : p[i] = "." }
        d == IF dots = {} THEN 0 ELSE CHOOSE i \in dots : \A j \in dots : j <= i
    IN  IF d <= 1 \/ d = Len(p) THEN <<>> ELSE SubSeq(p, d, Len(p))

\* p[-3:]
LastThree(p) == IF Len(p) <= 3 THEN p ELSE SubSeq(p, Len(p) - 2, Len(p))

\* Python's "a or b" on two strings
StrOr(a, b) == IF a # <<>> THEN a ELSE b

\* Py4d_M3C2.read: which reader the path is handed to
Py4dReadDispatch(p) ==
    LET extension == PathSuffix(p)
    IN  IF extension = StrOr(<<".", "l", "a", "s">>, <<".", "l", "a", "z">>)
        THEN "read_from_las"
        ELSE IF extension = StrOr(<<".", "x", "y", "z">>, <<".", "t", "x", "t">>)
        THEN "read_from_xyz"
        ELSE "quit"

\* Py4d_M3C2.write: which writer the output path selects
Py4dWriteDispatch(p) ==
    IF LastThree(p) = <<"l", "a", "s">> \/ LastThree(p) = <<"l", "a", "z">>
    THEN "write_to_las"
    ELSE IF LastThree(p) = <<"x", "y", "z">> \/ LastThree(p) = <<"t", "x", "t">>
    THEN "write_to_xyz"
    ELSE "quit"

(***************************************************************************)
(* Py4d_M3C2: the results of run() and the files written from them         *)
(***************************************************************************)
MaxCloud == 2

\* one core point with its results: distance, lodetection, spread1/2,
\* num_samples1/2 and normal
Py4dPoints ==
    { [pt |-> <<T(10), T(20), T(30)>>, dist |-> T(5), lod |-> T(1),
       spread |-> <<T(2), T(3)>>, samples |-> <<10, 12>>, normal |-> VecZ],
      [pt |-> <<T(15), T(25), T(35)>>, dist |-> NaN, lod |-> NaN,
       spread |-> <<T(4), Zero>>, samples |-> <<7, 0>>, normal |-> VecX],
      [pt |-> <<Zero, T(5), T(40)>>, dist |-> Tiny(2), lod |-> T(6),
       spread |-> <<T(7), T(8)>>, samples |-> <<3, 4>>,
       normal |-> <<Zero, One, Zero>>] }

Py4dClouds == UNION { [1..n -> Py4dPoints] : n \in 0..MaxCloud }

\* Py4d_M3C2.write_to_xyz: the header line and one line of twelve fields per
\* core point, each field the str() of the value
write_to_xyz(c) ==
    [kind   |-> "xyz",
     header |-> <<"X", "Y", "Z", "M3C2__distance", "distance__uncertainty",
                  "STD_cloud1", "STD_cloud2", "NormalX", "NormalY", "NormalZ">>,
     rows   |-> [i \in 1..Len(c) |->
                  << FloatText(c[i].pt[1]), FloatText(c[i].pt[2]),
                     FloatText(c[i].pt[3]),
                     FloatText(c[i].dist), FloatText(c[i].lod),
                     FloatText(c[i].spread[1]), FloatText(c[i].spread[2]),
                     DigitsOf(c[i].samples[1]), DigitsOf(c[i].samples[2]),
                     FloatText(c[i].normal[1]), FloatText(c[i].normal[2]),
                     FloatText(c[i].normal[3]) >>]]

\* Py4d_M3C2.write_to_las: the attribute dict handed to helper.write_las
write_to_las(c) ==
    [kind   |-> "las",
     header |-> <<"M3C2__distance", "distance__uncertainty",
                  "NormalX", "NormalY", "NormalZ", "STD_cloud1", "STD_cloud2",
                  "Npoints_cloud1", "Npoints_cloud2">>,
     rows   |-> [i \in 1..Len(c) |->
                  << c[i].dist, c[i].lod, c[i].normal[1], c[i].normal[2],
                     c[i].normal[3], c[i].spread[1], c[i].spread[2],
                     Num(c[i].samples[1], 0), Num(c[i].samples[2], 0) >>]]

NoFile == [kind |-> "none", header |-> <<>>, rows |-> <<>>]
NoBack == [outcome |-> "none", coords |-> <<>>, dc |-> <<>>]

\* the keys of dc after the header line: dc.update({s : []}) for every name,
\* so a name that occurs twice keeps the place of its first occurrence
RECURSIVE Firsts(_)
Firsts(h) ==
    IF h = <<>> THEN <<>>
    ELSE LET n == Len(h)
             r == Firsts(SubSeq(h, 1, n - 1))
         IN  IF \E j \in 1..(n - 1) : h[j] = h[n] THEN r ELSE Append(r, h[n])

\* dc.update({to : dc.pop(from)}): the key leaves its place and its list goes
\* under the new name, at the end of dc unless dc has that name already
Rename(d, from, to) ==
    IF HasKey(d, from)
    THEN Put(SelectSeq(d, LAMBDA x : x.k # from), to, Get(d, from))
    ELSE d

\* file_handle.read_xyz(file, get_attributes=True) on a file of one header
\* line and the data lines after it: zip(dc, line) gives the j-th key the
\* j-th field of every line that has one; X, Y and Z are taken out by name
\* (KeyError when the header does not name them) and Nx, Ny, Nz are renamed.
\* Lists of different lengths for X, Y and Z ("ragged") are an error of
\* np.array from NumPy 1.24 on and an array of lists before.
read_xyz(f) ==
    LET keys == Firsts(f.header)
        col(j) == LET rs == SelectSeq(f.rows, LAMBDA r : Len(r) >= j)
                  IN  [i \in 1..Len(rs) |-> ParseFloat(rs[i][j])]
        dc0 == [j \in 1..Len(keys) |-> [k |-> keys[j], a |-> col(j)]]
        x == Get(dc0, "X")
        y == Get(dc0, "Y")
        z == Get(dc0, "Z")
        rest == SelectSeq(dc0, LAMBDA c : c.k \notin { "X", "Y", "Z" })
    IN  IF ~(HasKey(dc0, "X") /\ HasKey(dc0, "Y") /\ HasKey(dc0, "Z"))
        THEN [outcome |-> "KeyError", coords |-> <<>>, dc |-> <<>>]
        ELSE IF Len(x) # Len(y) \/ Len(y) # Len(z)
        THEN [outcome |-> "ragged", coords |-> <<>>, dc |-> <<>>]
        ELSE [outcome |-> "ok",
              coords |-> [i \in 1..Len(x) |-> <<x[i], y[i], z[i]>>],
              dc |-> Rename(Rename(Rename(rest, "Nx", "NormalX"),
                                   "Ny", "NormalY"), "Nz", "NormalZ")]

\* ASCII files as other programs write them: normals under Nx, Ny, Nz, with
\* and without further columns, over two lines; Y before X; no X, Y, Z at all
XyzLine(vals) == [j \in 1..Len(vals) |-> FloatText(vals[j])]
XyzFiles ==
    { [kind |-> "xyz",
       header |-> <<"X", "Y", "Z", "Nx", "Ny", "Nz">>,
       rows |-> << XyzLine(<<T(10), T(20), T(30), Zero, Zero, One>>) >>],
      [kind |-> "xyz",
       header |-> <<"X", "Y", "Z", "M3C2__distance", "Nx", "Ny", "Nz",
                    "distance__uncertainty">>,
       rows |-> << XyzLine(<<T(10), T(20), T(30), T(5), Zero, Zero, One,
                             Num(1, 1)>>),
                   XyzLine(<<T(15), T(25), T(35), NaN, One, Zero, Zero,
                             Tiny(2)>>) >>],
      [kind |-> "xyz",
       header |-> <<"Y", "X", "Z", "M3C2__distance">>,
       rows |-> << XyzLine(<<T(10), T(20), T(30), T(5)>>) >>],
      [kind |-> "xyz",
       header |-> <<"A", "B", "C", "D">>,
       rows |-> << XyzLine(<<T(10), T(20), T(30), T(5)>>) >>],
      [kind |-> "xyz",
       header |-> <<"X", "Y", "Z", "Nx", "NormalX", "X">>,
       rows |-> << XyzLine(<<T(10), T(20), T(30), One, Zero>>) >>] }

\* Py4d_M3C2.read(path)
Py4dRead ==
    \E p \in Py4dPaths :
        /\ sig' = [form |-> "read", path |-> p, cloud |-> <<>>,
                   outcome |-> Py4dReadDispatch(p),
                   file |-> NoFile, back |-> NoBack]
        /\ UNCHANGED <<input, objVars, fileVars, last, nops, old>>

\* Py4d_M3C2.write() on an object whose output_path is p
Py4dWrite ==
    \E p \in Py4dPaths, c \in Py4dClouds :
        /\ sig' = [form |-> "write", path |-> p, cloud |-> c,
                   outcome |-> Py4dWriteDispatch(p),
                   file |-> IF Py4dWriteDispatch(p) = "write_to_las"
                            THEN write_to_las(c)
                            ELSE IF Py4dWriteDispatch(p) = "write_to_xyz"
                            THEN write_to_xyz(c)
                            ELSE NoFile,
                   back |-> NoBack]
        /\ UNCHANGED <<input, objVars, fileVars, last, nops, old>>

\* the ASCII file just written is read with file_handle.read_xyz
Py4dReadXyz ==
    /\ sig.form = "write"
    /\ sig.outcome = "write_to_xyz"
    /\ sig' = [sig EXCEPT !.form = "read_xyz", !.back = read_xyz(sig.file)]
    /\ UNCHANGED <<input, objVars, fileVars, last, nops, old>>

\* file_handle.read_xyz on a file that was not written by write_to_xyz
Py4dReadFile ==
    \E f \in XyzFiles :
        /\ sig.form = "none"
        /\ sig' = [form |-> "read_file", path |-> <<>>, cloud |-> <<>>,
                   outcome |-> read_xyz(f).outcome, file |-> f,
                   back |-> read_xyz(f)]
        /\ UNCHANGED <<input, objVars, fileVars, last, nops, old>>

Py4dNext == Py4dRead \/ Py4dWrite \/ Py4dReadXyz \/ Py4dReadFile

Py4dSpec == SigInit /\ [][Py4dNext]_vars

(***************************************************************************)
(* Clouds with the roles exchanged: every run of points is given to        *)
(* Compare once as (reference, other) and once as (other, reference); one  *)
(* more run holds a normal of length zero.                                 *)
(***************************************************************************)
PairFlat == [re |-> PtA, cl |-> [PtA EXCEPT !.normals = <<Zero, Zero, Zero>>]]

MirrorPairs ==
    LET ps == PairSeqs(MaxPoints) \cup { <<PairSame, PairFlat>> }
    IN  ps \cup { Mirrored(p) : p \in ps }

MirrorInit ==
    /\ input \in { WithNumPy(MkInput(ps, "equal",
                                      [spread |-> "both", samples |-> "both"]), v) :
                      ps \in MirrorPairs, v \in NumPyVersions }
    /\ CompareInit(input)
    /\ statsFile = NoStats
    /\ diffFile = NoDiff
    /\ cloudFile = NoCloud
    /\ last = [op |-> "__init__", calc_before |-> FALSE, outcome |-> "ok"]
    /\ nops = 0
    /\ old = CCPy4dInit(input)
    /\ sig = [form |-> "none", a |-> Zero, b |-> Zero, r |-> 0, res |-> Zero]

MirrorSpec == MirrorInit /\ [][Next]_vars

(***************************************************************************)
(* The script main.py, from the parsed options to the last call on the     *)
(* Compare object.  The files named on the command line and the files of   *)
(* an earlier run are taken to exist and to hold the attributes read.      *)
(***************************************************************************)
\* values of -f/--file_format: the five the script knows, two it does not
MainFormats == { "las", "laz", "xyz", "txt", "asc", "csv", "ply" }

\* the methods class Compare defines
CompareMethods ==
    { "calc_differences", "mapDiff", "plotNormDiff", "plotNormHist",
      "spreadDiff", "sampleDiff", "writeStatistics", "writeDiff", "writeCloud" }

\* the parameters of Py4d_M3C2.__init__
Py4dCtorParams ==
    { "path1", "path2", "corepoint_path", "output_path", "params", "compr" }

\* the calls on the object compare, lines 189-203, in their order
MainCalls ==
    << "calculate_differences", "plotNormDiff", "plotNormHist", "mapDiff",
       "spreadDiff", "sampleDiff", "writeStatistics", "writeCloud" >>

\* checkParams: the options of one run
MainStart ==
    /\ sig.form = "none"
    /\ \E f \in MainFormats, s \in BOOLEAN, r \in BOOLEAN, n \in BOOLEAN :
          sig' = [form |-> "main", pc |-> "calculate", file_format |-> f,
                  skip |-> s, repeat |-> r, cc_normals |-> n,
                  reference |-> FALSE, cloud |-> FALSE, built |-> FALSE,
                  called |-> <<>>, outcome |-> "running"]
    /\ UNCHANGED <<input, objVars, fileVars, last, nops, old>>

\* lines 142-158: the two computations, unless skip or repeat is set
MainCalculate ==
    /\ sig.form = "main" /\ sig.pc = "calculate"
    /\ sig' =
         IF sig.repeat \/ sig.skip THEN [sig EXCEPT !.pc = "read"]
         ELSE IF sig.file_format \notin { "las", "laz", "xyz", "txt", "asc" }
         THEN [sig EXCEPT !.pc = "exit", !.outcome = "File format not supported"]
         ELSE IF "cc_normals" \notin Py4dCtorParams
         THEN \* Py4d_M3C2(..., cc_normals=...): unexpected keyword argument
              [sig EXCEPT !.pc = "exit", !.outcome = "TypeError"]
         ELSE [sig EXCEPT !.pc = "read"]
    /\ UNCHANGED <<input, objVars, fileVars, last, nops, old>>

\* lines 161-170: if las/laz ... elif xyz/txt/asc ..., without an else
MainRead ==
    /\ sig.form = "main" /\ sig.pc = "read"
    /\ LET known == sig.file_format \in { "las", "laz" }
                    \/ sig.file_format \in { "xyz", "txt", "asc" }
       IN  sig' = [sig EXCEPT !.pc = "reorder",
                              !.reference = known, !.cloud = known]
    /\ UNCHANGED <<input, objVars, fileVars, last, nops, old>>

\* lines 173-174: reorder(reference), reorder(cloud)
MainReorder ==
    /\ sig.form = "main" /\ sig.pc = "reorder"
    /\ sig' = IF sig.reference /\ sig.cloud
              THEN [sig EXCEPT !.pc = "build"]
              ELSE [sig EXCEPT !.pc = "exit", !.outcome = "NameError"]
    /\ UNCHANGED <<input, objVars, fileVars, last, nops, old>>

\* lines 181-186: compare = Compare(...)
MainBuild ==
    /\ sig.form = "main" /\ sig.pc = "build"
    /\ sig' = [sig EXCEPT !.pc = "call", !.built = TRUE]
    /\ UNCHANGED <<input, objVars, fileVars, last, nops, old>>

\* lines 189-203: the next call on compare; a name the class does not define
\* raises AttributeError
MainInvoke ==
    /\ sig.form = "main" /\ sig.pc = "call"
    /\ LET name == MainCalls[Len(sig.called) + 1]
       IN  sig' =
             IF name \notin CompareMethods
             THEN [sig EXCEPT !.pc = "exit", !.outcome = "AttributeError"]
             ELSE IF Len(sig.called) + 1 = Len(MainCalls)
             THEN [sig EXCEPT !.called = Append(@, name),
                              !.pc = "exit", !.outcome = "done"]
             ELSE [sig EXCEPT !.called = Append(@, name)]
    /\ UNCHANGED <<input, objVars, fileVars, last, nops, old>>

MainNext ==
    \/ MainStart
    \/ MainCalculate
    \/ MainRead
    \/ MainReorder
    \/ MainBuild
    \/ MainInvoke

MainSpec == SigInit /\ [][MainNext]_vars

(***************************************************************************)
(* Properties                                                              *)
(***************************************************************************)
\* the operations that read the results of calc_differences
Consumers ==
    { "mapDiff", "plotNormDiff", "plotNormHist",
      "writeStatistics", "writeDiff", "writeCloud" }

\* outcomes of a call that returned to its caller without raising
ReturnedNormally == { "ok", "rejected", "unsupported" }

\* C1: a consumer called before calc_differences has run stops with an error:
\* it does not return normally and it does not get as far as reading the
\* empty diffs.
C1_ConsumersFailBeforeCalc ==
    (last.op \in Consumers /\ ~last.calc_before)
        => (last.outcome \notin ReturnedNormally /\ last.outcome # "KeyError")

\* C1, reached: writeCloud called first reads diffs['Distance'] of the empty
\* dict and dies of KeyError, no file written.
C1_WriteCloudReadsEmptyDiffs ==
    /\ last.op = "writeCloud"
    /\ ~last.calc_before
    /\ last.outcome = "KeyError"
    /\ diffs = EmptyDict
    /\ cloudFile = NoCloud

\* the array a column of the statistics table is named after
OwnArray(K) ==
    IF K = "Aspect" THEN aspects
    ELSE IF K = "Slope" THEN slopes
    ELSE Get(diffs, K)

\* the statistic f of the non-NaN values of K's own array
OwnStat(stat, K) ==
    LET li == DropNaN(OwnArray(K))
    IN  IF Len(li) > 1 THEN Statistic(stat, li) ELSE NaN

\* writeStatistics was the last call, on the results of calc_differences,
\* and wrote the whole file
StatsComplete ==
    /\ last.op = "writeStatistics"
    /\ last.outcome = "ok"
    /\ statsFile.state = "complete"

\* C2: in the table writeStatistics has just written after calc_differences,
\* the cell of every column K (every key of diffs, then Aspect and Slope) in
\* the rows Mean, Median and Standard Deviation is that statistic of K's own
\* array.
C2_ColumnsHoldOwnStatistics ==
    (StatsComplete /\ HasKey(diffs, "LODetection")) =>
        \A c \in 2..Len(statsFile.header) :
            /\ statsFile.mean[c - 1] = OwnStat("mean", statsFile.header[c])
            /\ statsFile.median[c - 1] = OwnStat("median", statsFile.header[c])
            /\ statsFile.std_dev[c - 1] = OwnStat("stdev", statsFile.header[c])

\* C2, reached: the column headed Y holds the mean of the X differences, which
\* is not the mean of the Y differences, and LODetection is summarised
\* nowhere: the cell under it is the mean of Distance.
C2_ColumnsShifted ==
    /\ StatsComplete
    /\ \E c \in 2..Len(statsFile.header) :
          /\ statsFile.header[c] = "Y"
          /\ statsFile.mean[c - 1] = OwnStat("mean", "X")
          /\ statsFile.mean[c - 1] # OwnStat("mean", "Y")
    /\ \E c \in 2..Len(statsFile.header) :
          /\ statsFile.header[c] = "LODetection"
          /\ statsFile.mean[c - 1] = OwnStat("mean", "Distance")
          /\ statsFile.mean[c - 1] # OwnStat("mean", "LODetection")

\* writeStatistics of the earlier class was the last call and wrote the file
CCPy4dStatsComplete ==
    /\ last.op = "compareCC_Py4d.writeStatistics"
    /\ last.outcome = "ok"

CCPy4dOwnArray(K) ==
    IF K = "Aspect" THEN old.aspects
    ELSE IF K = "Slope" THEN old.slopes
    ELSE Get(old.diffs, K)

\* the table of the earlier class (compareCC_Py4d.py, s = len(diffs) + 3):
\* every row has a cell for every column, and the cell of column K is the
\* statistic of K's own array
CCPy4dColumnsHoldOwnStatistics ==
    CCPy4dStatsComplete =>
        /\ statsFile.header = <<"Statistics">> \o Keys(old.diffs)
                              \o <<"Aspect", "Slope">>
        /\ Len(statsFile.mean) = Len(statsFile.header)
        /\ Len(statsFile.median) = Len(statsFile.header)
        /\ Len(statsFile.std_dev) = Len(statsFile.header)
        /\ statsFile.nan_rows = <<>>
        /\ \A c \in 2..Len(statsFile.header) :
              LET own == CCPy4dOwnArray(statsFile.header[c]) IN
              /\ statsFile.mean[c] = CCPy4dCell("mean", own)
              /\ statsFile.median[c] = CCPy4dCell("median", own)
              /\ statsFile.std_dev[c] = CCPy4dCell("stdev", own)

\* reached: the earlier class has written a table in which the columns Y and
\* LODetection hold means of their own arrays that differ from the means of
\* the columns before them
CCPy4dColumnsWritten ==
    /\ CCPy4dStatsComplete
    /\ \E c \in 2..Len(statsFile.header) :
          /\ statsFile.header[c] = "Y"
          /\ statsFile.mean[c] = IntZero
          /\ statsFile.mean[c - 1] \notin { IntZero, None }
    /\ \E c \in 2..Len(statsFile.header) :
          /\ statsFile.header[c] = "LODetection"
          /\ statsFile.mean[c] # None
          /\ statsFile.mean[c] # statsFile.mean[c - 1]

\* the four-way table of the NaN pattern of one point
NanClass(re_d, cl_d) ==
    IF ~IsNaN(re_d) /\ ~IsNaN(cl_d) THEN 0
    ELSE IF IsNaN(re_d) /\ ~IsNaN(cl_d) THEN 1
    ELSE IF ~IsNaN(re_d) /\ IsNaN(cl_d) THEN 2
    ELSE 3

\* C3: once calc_differences has run on two clouds of N points each, for every
\* point i, nan_mode[i] is 0 if neither distance is NaN, 1 if only the
\* reference distance is NaN, 2 if only the other distance is NaN, 3 if both.
C3_NanModeTable ==
    (calc /\ Len(re.dist) = Len(cl.dist)) =>
        /\ Len(nan_mode) >= size
        /\ \A i \in 1..size : nan_mode[i] = NanClass(re.dist[i], cl.dist[i])

\* C3, reached with NumPy 1: a run whose points show a reference-only NaN (1)
\* and an other-only NaN (2) side by side.
C3_OneSidedNaNsClassified ==
    /\ calc
    /\ Len(re.dist) = Len(cl.dist)
    /\ \E i \in 1..size : IsNaN(re.dist[i]) /\ ~IsNaN(cl.dist[i]) /\ nan_mode[i] = 1
    /\ \E i \in 1..size : ~IsNaN(re.dist[i]) /\ IsNaN(cl.dist[i]) /\ nan_mode[i] = 2

\* C3, reached with NumPy 2: str(pair) is '(np.True_, np.False_)', no key of
\* switch, and a point whose reference distance alone is NaN has the mode None
\* next to a point with two distances that has the mode None as well.
C3_NoKeyMatchesUnderNumPyTwo ==
    /\ calc
    /\ input.numpy = 2
    /\ Len(re.dist) = Len(cl.dist)
    /\ \E i \in 1..size :
          IsNaN(re.dist[i]) /\ ~IsNaN(cl.dist[i]) /\ nan_mode[i] = NoMode
    /\ \E i \in 1..size :
          ~IsNaN(re.dist[i]) /\ ~IsNaN(cl.dist[i]) /\ nan_mode[i] = NoMode

\* the number of entries of nan_mode equal to mode
ModeCount(mode) == Cardinality({ i \in 1..Len(nan_mode) : nan_mode[i] = mode })

\* count/n*100 with two decimals, in hundredths of a percent
Share(count, n) == RoundHalfEven(count * 10000, n)

\* C4 as stated: the three rows are the shares of points NaN only in the
\* reference, NaN only in the other cloud, and NaN in both, each
\* count/N*100 over the N entries of nan_mode.
C4_OnlySharesReported ==
    (StatsComplete /\ Len(nan_mode) = size) =>
        /\ statsFile.nan_rows[1].pct = Share(ModeCount(1), Len(nan_mode))
        /\ statsFile.nan_rows[2].pct = Share(ModeCount(2), Len(nan_mode))
        /\ statsFile.nan_rows[3].pct = Share(ModeCount(3), Len(nan_mode))

\* C4 as the code has it: the row of the reference is the share of entries
\* that are 1 or 3, the row of the other cloud the share of entries that are
\* 2 or 3, the last row the share of entries that are 3, each count/size*100.
C4_InclusiveSharesReported ==
    StatsComplete =>
        /\ Len(statsFile.nan_rows) = 3
        /\ statsFile.nan_rows[1].pct = Share(ModeCount(1) + ModeCount(3), size)
        /\ statsFile.nan_rows[2].pct = Share(ModeCount(2) + ModeCount(3), size)
        /\ statsFile.nan_rows[3].pct = Share(ModeCount(3), size)

\* C4, reached: a cloud with a point NaN in both and a point NaN only in the
\* reference; the reference row reports both of them.
C4_BothCountedInReferenceRow ==
    /\ StatsComplete
    /\ Len(nan_mode) = size
    /\ ModeCount(3) > 0
    /\ ModeCount(1) > 0
    /\ statsFile.nan_rows[1].pct = Share(ModeCount(1) + ModeCount(3), size)
    /\ statsFile.nan_rows[1].pct # Share(ModeCount(1), size)

\* C5: sigDiff(a, b, r=p), scalar or indexed, is 0 (the int, equal to 0.0)
\* when round(|a-b|, p) is 0 and is the unrounded |a-b| otherwise.
C5_SigDiffZeroOrExact ==
    sig.form # "none" =>
        IF Round(Abs(Sub(sig.a, sig.b)), sig.r) = Zero
        THEN Float(sig.res) = Zero
        ELSE sig.res = Abs(Sub(sig.a, sig.b))

\* C5, reached: an indexed call at the default precision on two values that
\* differ, by less than half a unit of the last kept decimal, returns 0.
C5_TinyDifferenceIsZero ==
    /\ sig.form = "indexed"
    /\ sig.r = DefaultR
    /\ Abs(Sub(sig.a, sig.b)) # Zero
    /\ sig.res = IntZero

\* every array of the earlier class has been filled by its calc_differences
CCPy4dFilled ==
    \A j \in 1..Len(old.diffs) : ~HasNone(old.diffs[j].a)

\* C6: on two clouds of equal length, every array of differences Compare holds
\* (after calc_differences, spreadDiff, sampleDiff) equals the array the
\* sigDiff-based calc_differences of compareCC_Py4d.py computes under the
\* same key from the same inputs (the int 0 of sigDiff equals the float 0.0).
C6_DiffsEqualSigDiff ==
    (Len(re.dist) = Len(cl.dist) /\ CCPy4dFilled) =>
        \A j \in 1..Len(diffs) :
            HasKey(old.diffs, diffs[j].k) =>
                diffs[j].a = Floats(Get(old.diffs, diffs[j].k))

\* C6, reached: two distances 2e-21 apart; compare.py keeps the difference,
\* the sigDiff-based class reports 0.
C6_TinyDifferenceKept ==
    /\ Len(re.dist) = Len(cl.dist)
    /\ CCPy4dFilled
    /\ HasKey(diffs, "Distance")
    /\ \E i \in 1..size :
          /\ Get(old.diffs, "Distance")[i] = IntZero
          /\ Get(diffs, "Distance")[i] = Tiny(2)

KeySet(d) == { d[i].k : i \in 1..Len(d) }

\* C7: no operation on a constructed Compare object adds a key to diffs or
\* removes one: the key set is the same before and after every step.
C7_KeySetFixed == [][KeySet(diffs') = KeySet(diffs)]_vars

\* C7, reached: spreadDiff, called before calc_differences, has put Spread1
\* and Spread2 into a dict that held no key at construction and holds no X.
C7_SpreadKeysAddedLater ==
    /\ last.op = "spreadDiff"
    /\ last.outcome = "ok"
    /\ KeySet(diffs) = { "Spread1", "Spread2" }

\* C8: once calc_differences has run on two clouds of N points, however often,
\* nan_mode has N entries and nan_mode, diffs, slopes and aspects are what one
\* call computes.
C8_RepeatedCalcSameResult ==
    (calc /\ Len(re.dist) = Len(cl.dist)) =>
        /\ Len(nan_mode) = size
        /\ nan_mode = NanModes(cl.dist, re.dist)
        /\ \A j \in 1..Len(BaseKeys) :
              Get(diffs, BaseKeys[j]) = Get(BaseDiffs(EmptyDict), BaseKeys[j])
        /\ slopes = Angles(NoneArray(size), "slope")
        /\ aspects = Angles(NoneArray(size), "aspect")

\* C8, reached: after the second call nan_mode holds two entries per point.
C8_NanModeDoubled ==
    /\ last.op = "calc_differences"
    /\ last.calc_before
    /\ last.outcome = "ok"
    /\ size > 0
    /\ Len(re.dist) = Len(cl.dist)
    /\ Len(nan_mode) = 2 * size

\* neither file carries STD_cloud1/2 or Npoints_cloud1/2
NoSpreadNoSamples ==
    /\ ~input.re_spread.given /\ ~input.cl_spread.given
    /\ ~input.re_samples.given /\ ~input.cl_samples.given

\* C9: when neither cloud carries spread or sample counts, diffs never gets
\* the keys Spread1/2 or NumSamples1/2, the statistics table has no such
\* column, and spreadDiff and sampleDiff return without raising.
C9_AbsentSpreadTolerated ==
    NoSpreadNoSamples =>
        /\ KeySet(diffs) \cap { "Spread1", "Spread2", "NumSamples1", "NumSamples2" } = {}
        /\ \A c \in 1..Len(statsFile.header) :
              statsFile.header[c] \notin { "Spread1", "Spread2", "NumSamples1", "NumSamples2" }
        /\ last.op \in { "spreadDiff", "sampleDiff" } =>
              last.outcome \in ReturnedNormally

\* C9, reached: after a successful calc_differences, spreadDiff(None, None)
\* raises TypeError.
C9_SpreadDiffRaisesOnNone ==
    /\ NoSpreadNoSamples
    /\ last.op = "spreadDiff"
    /\ last.calc_before
    /\ HasKey(diffs, "Distance")
    /\ last.outcome = "TypeError"

\* C10: calc_differences on two clouds of different length raises, leaves
\* calc False and writes nothing to diffs, nan_mode, slopes or aspects.
C10_LengthMismatchRejected ==
    (last.op = "calc_differences" /\ Len(re.dist) # Len(cl.dist)) =>
        /\ last.outcome \notin ReturnedNormally
        /\ ~calc
        /\ KeySet(diffs) \cap { BaseKeys[j] : j \in 1..Len(BaseKeys) } = {}
        /\ nan_mode = <<>>
        /\ slopes = NoneArray(size)
        /\ aspects = NoneArray(size)

\* C10, reached: a reference of one point against a cloud of two: the call
\* returns, calc is True and diffs holds two differences per key.
C10_MismatchBroadcast ==
    /\ last.op = "calc_differences"
    /\ last.outcome = "ok"
    /\ Len(re.dist) = 1
    /\ Len(cl.dist) = 2
    /\ calc
    /\ Len(Get(diffs, "Distance")) = 2
    /\ Len(nan_mode) = 1

\* C11: the earlier class declares the columns Spread1/Spread2 exactly when
\* both clouds provide spread, and NumSamples1/NumSamples2 exactly when both
\* provide num_samples; in every state, before and after calc_differences.
C11_PairColumnsIffBothProvide ==
    /\ HasKey(old.diffs, "Spread1")
          <=> (input.re_spread.given /\ input.cl_spread.given)
    /\ HasKey(old.diffs, "Spread2")
          <=> (input.re_spread.given /\ input.cl_spread.given)
    /\ HasKey(old.diffs, "NumSamples1")
          <=> (input.re_samples.given /\ input.cl_samples.given)
    /\ HasKey(old.diffs, "NumSamples2")
          <=> (input.re_samples.given /\ input.cl_samples.given)

\* C11, reached: only the reference provides spread; the columns are declared,
\* and calc_differences fills the eight base differences of the first point
\* and then dies of TypeError on the missing side: Spread1 stays None.
C11_OneSidedSpreadDeclared ==
    /\ input.re_spread.given
    /\ ~input.cl_spread.given
    /\ old.size > 0
    /\ last.op = "compareCC_Py4d.calc_differences"
    /\ last.outcome = "TypeError"
    /\ HasKey(old.diffs, "Spread1")
    /\ Get(old.diffs, "Spread1")[1] = None
    /\ Get(old.diffs, "LODetection")[1] # None


(***************************************************************************)
(* C12: the statistics of one array, stated on the numbers themselves      *)
(***************************************************************************)
\* the entries of arr that are not NaN, by position
ValidAt(arr) == { i \in 1..Len(arr) : ~IsNaN(arr[i]) }
\* an entry of the harness in tenths
Tenths(x) == x.m * Pow10(1 - x.e)
RECURSIVE TenthsSum(_, _, _)
\* sum over the valid entries among the first k of Tenths (sq = FALSE) or of
\* its square (sq = TRUE)
TenthsSum(arr, k, sq) ==
    IF k = 0 THEN 0
    ELSE TenthsSum(arr, k - 1, sq)
         + (IF IsNaN(arr[k]) THEN 0
            ELSE IF sq THEN Tenths(arr[k]) * Tenths(arr[k])
            ELSE Tenths(arr[k]))
\* v = p / (q tenths-units): v.m / (v.d * 10^v.e) = p / (10 * q)
IsTenthsRatio(v, p, q) ==
    /\ v.t = "num"
    /\ v.m * 10 * q = p * v.d * Pow10(v.e)
\* sign of v - x for a result v and an entry x
CmpEntry(v, x) == v.m * 10 - Tenths(x) * v.d * Pow10(v.e)
IsMedianOf(v, arr) ==
    LET ok == ValidAt(arr)
        n == Cardinality(ok)
        below == Cardinality({ i \in ok : CmpEntry(v, arr[i]) > 0 })
        above == Cardinality({ i \in ok : CmpEntry(v, arr[i]) < 0 })
    IN  /\ v.t = "num"
        /\ 2 * below <= n
        /\ 2 * above <= n
        /\ n % 2 = 1 => \E i \in ok : CmpEntry(v, arr[i]) = 0
        /\ n % 2 = 0 =>
              \E i \in ok : \E j \in ok \ {i} :
                  /\ CmpEntry(v, arr[i]) >= 0
                  /\ CmpEntry(v, arr[j]) <= 0
                  /\ IsTenthsRatio(v, Tenths(arr[i]) + Tenths(arr[j]), 2)
\* v * v = p / (100 * q)
IsTenthsRoot(v, p, q) ==
    IF v.t = "sqrt"
    THEN v.m * 100 * q = p * v.d * Pow10(v.e)
    ELSE /\ v.t = "num"
         /\ v.m >= 0
         /\ v.m * v.m * 100 * q = p * v.d * v.d * Pow10(2 * v.e)

\* C12: for an array with at least two entries that are not NaN, the mean is
\* the sum of those entries over their number n, the median is the middle of
\* those entries in order, and the squared standard deviation times (n - 1) is
\* the sum of the squared deviations from the mean; [1.0, 2.0, NaN, 3.0]
\* gives 2.0, 2.0 and 1.0.
C12_StatisticsOverNonNaN ==
    sig.form = "stats" =>
        LET arr == sig.arr
            n == Cardinality(ValidAt(arr))
            s1 == TenthsSum(arr, Len(arr), FALSE)
            s2 == TenthsSum(arr, Len(arr), TRUE)
        IN  /\ n > 1 =>
                /\ IsTenthsRatio(sig.mean, s1, n)
                /\ IsMedianOf(sig.median, arr)
                /\ IsTenthsRoot(sig.std_dev, n * s2 - s1 * s1, n * (n - 1))
            /\ arr = <<Num(1, 0), Num(2, 0), NaN, Num(3, 0)>> =>
                /\ sig.mean = Num(2, 0)
                /\ sig.median = Num(2, 0)
                /\ sig.std_dev = Num(1, 0)

\* C12, reached: the statistics of [1.0, 2.0, NaN, 3.0] are computed
C12_ExampleSummarised ==
    /\ sig.form = "stats"
    /\ sig.arr = <<Num(1, 0), Num(2, 0), NaN, Num(3, 0)>>
    /\ sig.std_dev = Num(1, 0)


(***************************************************************************)
(* C13: attributes with fewer than two usable entries                      *)
(***************************************************************************)
\* the loop passes of writeStatistics whose array keeps fewer than two
\* entries once the NaN entries are dropped
ShortPasses == { i \in 1..(StatS - 1) : Len(DropNaN(StatList(i))) < 2 }

\* C13: in the summary writeStatistics has just written, the mean, the median
\* and the standard deviation of every array with fewer than two entries that
\* are not NaN are the undefined value None.
C13_ShortArraysReportNone ==
    StatsComplete =>
        \A i \in ShortPasses :
            /\ statsFile.mean[i + 1] = None
            /\ statsFile.median[i + 1] = None
            /\ statsFile.std_dev[i + 1] = None

\* C13, reached: an array with fewer than two usable entries is summarised,
\* and the three cells written for it are nan
C13_ShortArrayReportsNaN ==
    /\ StatsComplete
    /\ \E i \in ShortPasses :
          /\ Len(StatList(i)) > 0
          /\ statsFile.mean[i + 1] = NaN
          /\ statsFile.median[i + 1] = NaN
          /\ statsFile.std_dev[i + 1] = NaN

\* the earlier class (dtype=object): the three cells of an array with fewer
\* than two entries that are not NaN are None, written as the empty field
CCPy4dShortArraysReportNone ==
    CCPy4dStatsComplete =>
        \A c \in 2..Len(statsFile.header) :
            Len(DropNaN(CCPy4dOwnArray(statsFile.header[c]))) < 2 =>
                /\ statsFile.mean[c] = None
                /\ statsFile.median[c] = None
                /\ statsFile.std_dev[c] = None
                /\ CsvField(statsFile.mean[c]) = [quoted |-> TRUE, text |-> <<>>]

\* reached: the earlier class has summarised an array that is not empty and
\* keeps fewer than two usable entries
CCPy4dShortArrayWritten ==
    /\ CCPy4dStatsComplete
    /\ \E c \in 2..Len(statsFile.header) :
          /\ Len(CCPy4dOwnArray(statsFile.header[c])) > 0
          /\ Len(DropNaN(CCPy4dOwnArray(statsFile.header[c]))) < 2
          /\ statsFile.mean[c] = None


(***************************************************************************)
(* C14: NaN inputs                                                         *)
(***************************************************************************)
SameLength == Len(re.dist) = Len(cl.dist)
\* index i of the two operands of key K holds NaN in either cloud
SourceNaN(K, i) ==
    LET ops == CCPy4dOperands(old, K)
    IN  IsNaN(ops.v1[i]) \/ IsNaN(ops.v2[i])
RECURSIVE KeptOf(_, _, _)
\* the entries of d among the first k whose sources are both not NaN
KeptOf(d, K, k) ==
    IF k = 0 THEN <<>>
    ELSE KeptOf(d, K, k - 1) \o (IF SourceNaN(K, k) THEN <<>> ELSE <<d[k]>>)
KeptStat(stat, K) ==
    LET li == KeptOf(Get(diffs, K), K, Len(Get(diffs, K)))
    IN  IF Len(li) > 1 THEN Statistic(stat, li) ELSE NaN
PairsGivenTogether ==
    /\ input.re_spread.given => input.cl_spread.given
    /\ input.re_samples.given => input.cl_samples.given

\* C14: on two clouds of the same length that hold NaN values, neither
\* calc_differences nor the sigDiff loop of the earlier class raises, every
\* difference whose source is NaN in either cloud is NaN, and the mean, median
\* and standard deviation written for a key are those of the entries whose
\* sources are both not NaN.
C14_NaNHandledInBand ==
    SameLength =>
        /\ last.op = "calc_differences" =>
              /\ last.outcome = "ok"
              /\ \A j \in 1..Len(BaseKeys) : \A i \in 1..size :
                    SourceNaN(BaseKeys[j], i)
                        => IsNaN(Get(diffs, BaseKeys[j])[i])
        /\ (last.op = "compareCC_Py4d.calc_differences" /\ PairsGivenTogether) =>
              /\ last.outcome = "ok"
              /\ \A j \in 1..Len(old.diffs) : \A i \in 1..old.size :
                    SourceNaN(old.diffs[j].k, i) => IsNaN(old.diffs[j].a[i])
        /\ (last.op = "writeStatistics" /\ calc /\ size > 0) =>
              /\ last.outcome = "ok"
              /\ \A i \in 1..(Len(diffs) - 1) :
                    /\ statsFile.mean[i + 1] = KeptStat("mean", Keys(diffs)[i])
                    /\ statsFile.median[i + 1] = KeptStat("median", Keys(diffs)[i])
                    /\ statsFile.std_dev[i + 1] = KeptStat("stdev", Keys(diffs)[i])

\* C14, reached: a point whose distance is NaN in one cloud only is left out
\* of the summary of the distance differences, which is a number
C14_OneSidedNaNLeftOut ==
    /\ StatsComplete
    /\ SameLength
    /\ \E i \in 1..size :
          /\ IsNaN(cl.dist[i]) /\ ~IsNaN(re.dist[i])
          /\ IsNaN(Get(diffs, "Distance")[i])
    /\ Keys(diffs)[7] = "Distance"
    /\ IsNum(statsFile.mean[8])
    /\ IsNum(statsFile.median[8])

\* C14, reached: the sigDiff loop has met a NaN and stored NaN
C14_SigDiffLoopStoresNaN ==
    /\ last.op = "compareCC_Py4d.calc_differences"
    /\ last.outcome = "ok"
    /\ \E i \in 1..old.size :
          /\ SourceNaN("Distance", i)
          /\ IsNaN(old.diffs[7].a[i])


(***************************************************************************)
(* C15: the per-point table                                                *)
(***************************************************************************)
\* writeDiff of compare.py, called after calc_differences on two clouds of N
\* points, writes the header and exactly N rows; row i starts with the reference
\* cloud's X, Y, Z of point i, goes on with the entry at index i of every
\* array of diffs (the eight base differences first, in their fixed order)
\* and ends with the aspect, the slope and the NaN mode of point i.
C15_DiffTableRows ==
    (last.op = "writeDiff" /\ calc /\ SameLength) =>
        LET n == Len(diffs) IN
        /\ last.outcome = "ok"
        /\ diffFile.state = "complete"
        /\ diffFile.header = <<"X Coord", "Y Coord", "Z Coord">> \o Keys(diffs)
                             \o <<"Aspect", "Slope", "Nan-Mode">>
        /\ Len(diffFile.rows) = Len(re.pts)
        /\ \A i \in 1..Len(diffFile.rows) :
              LET r == diffFile.rows[i] IN
              /\ Len(r.vals) = 3 + n + 2
              /\ SubSeq(r.vals, 1, 3) = re.pts[i]
              /\ \A j \in 1..n :
                    \E c \in 4..(3 + n) : r.vals[c] = Get(diffs, Keys(diffs)[j])[i]
              /\ \A j \in 1..Len(BaseKeys) :
                    r.vals[3 + j] = Get(diffs, BaseKeys[j])[i]
              /\ r.vals[4 + n] = aspects[i]
              /\ r.vals[5 + n] = slopes[i]
              /\ r.nan_mode = nan_mode[i]

\* reached: three rows are written for clouds of three points whose
\* coordinates differ in some point
C15_ThreeRowsWritten ==
    /\ last.op = "writeDiff"
    /\ last.outcome = "ok"
    /\ SameLength
    /\ size = 3
    /\ Len(diffFile.rows) = 3
    /\ \E i \in 1..3 : re.pts[i] # cl.pts[i] /\ SubSeq(diffFile.rows[i].vals, 1, 3) = re.pts[i]

\* writeDiff of the earlier class was the last call, on arrays that its
\* calc_differences has filled
CCPy4dDiffComplete ==
    /\ last.op = "compareCC_Py4d.writeDiff"
    /\ last.outcome = "ok"
    /\ CCPy4dFilled
    /\ ~HasNone(old.slopes)
    /\ ~HasNone(old.aspects)

\* what the two classes write alike: the header begins with the coordinate
\* columns and the keys of diffs, there are N rows, and row i begins with the
\* reference cloud's X, Y, Z of point i and the entry at index i of every
\* array of diffs
CCPy4dRowsBegin ==
    LET n == Len(old.diffs) IN
    /\ diffFile.state = "complete"
    /\ SubSeq(diffFile.header, 1, 3 + n)
         = <<"X Coord", "Y Coord", "Z Coord">> \o Keys(old.diffs)
    /\ Len(diffFile.rows) = old.size
    /\ \A i \in 1..Len(diffFile.rows) :
          LET r == diffFile.rows[i] IN
          /\ Len(r.line) = Len(diffFile.header)
          /\ SubSeq(r.vals, 1, 3) = old.re.pts[i]
          /\ \A j \in 1..n : r.vals[3 + j] = old.diffs[j].a[i]

\* C15: writeDiff called after calc_differences on two clouds of N points
\* writes the header and exactly N rows; row i starts with the reference
\* cloud's X, Y, Z of point i, goes on with the entry at index i of every
\* array of diffs and ends with the aspect, the slope and the NaN mode of
\* point i.  Stated for the writeDiff of compareCC_Py4d.py.
C15_EarlierTableEndsWithNanMode ==
    CCPy4dDiffComplete =>
        LET n == Len(old.diffs) IN
        /\ CCPy4dRowsBegin
        /\ diffFile.header = <<"X Coord", "Y Coord", "Z Coord">> \o Keys(old.diffs)
                             \o <<"Aspect", "Slope", "Nan-Mode">>
        /\ \A i \in 1..Len(diffFile.rows) :
              LET r == diffFile.rows[i] IN
              /\ Len(r.line) = 3 + n + 3
              /\ r.vals[4 + n] = old.aspects[i]
              /\ r.vals[5 + n] = old.slopes[i]
              /\ r.line[6 + n]
                   = CsvInt(switch(StrPair(IsNaN(old.cl.dist[i]),
                                           IsNaN(old.re.dist[i]))))

\* C15, reached: the earlier class has written the table of two or more
\* points after its calc_differences; the header ends with Slope, every row
\* ends with the aspect and the slope of its point, and no field holds the
\* NaN mode, although the distance of some point is NaN
C15_EarlierTableWithoutNanMode ==
    LET n == Len(old.diffs) IN
    /\ CCPy4dDiffComplete
    /\ old.size >= 2
    /\ CCPy4dRowsBegin
    /\ diffFile.header = <<"X Coord", "Y Coord", "Z Coord">> \o Keys(old.diffs)
                         \o <<"Aspect", "Slope">>
    /\ \A i \in 1..old.size :
          /\ Len(diffFile.rows[i].line) = 3 + n + 2
          /\ diffFile.rows[i].vals[4 + n] = old.aspects[i]
          /\ diffFile.rows[i].vals[5 + n] = old.slopes[i]
    /\ \E i \in 1..old.size : IsNaN(Get(old.diffs, "Distance")[i])

\* the part of C15 the earlier class meets: N rows that begin alike and end
\* with the aspect and the slope
CCPy4dTableRows ==
    CCPy4dDiffComplete =>
        /\ CCPy4dRowsBegin
        /\ \A i \in 1..old.size :
              /\ diffFile.rows[i].vals[4 + Len(old.diffs)] = old.aspects[i]
              /\ diffFile.rows[i].vals[5 + Len(old.diffs)] = old.slopes[i]

\* reached: writeDiff of the earlier class, called before calc_differences
\* on clouds of two points, has written the header and two rows whose fields
\* after the coordinates are empty
CCPy4dTableBeforeCalculation ==
    /\ last.op = "compareCC_Py4d.writeDiff"
    /\ old.size = 2
    /\ Len(diffFile.rows) = 2
    /\ \A i \in 1..2 : \A c \in 4..Len(diffFile.rows[i].line) :
          diffFile.rows[i].line[c] = [quoted |-> TRUE, text |-> <<>>]


(***************************************************************************)
(* C16: rejected consumer calls                                            *)
(***************************************************************************)
GuardedConsumers ==
    { "mapDiff", "plotNormDiff", "plotNormHist", "writeStatistics", "writeDiff" }

\* the step is a rejected call: it changes neither the object nor the files
RejectionKeepsState ==
    last'.outcome = "rejected" => UNCHANGED <<objVars, fileVars>>

\* the state after a first, completed calc_differences: the state a rejected
\* consumer call followed by calc_differences leaves behind
FreshlyComputed ==
    /\ last.op = "calc_differences"
    /\ last.outcome = "ok"
    /\ Len(diffs) = Len(BaseKeys)
    /\ Len(nan_mode) = size

\* the step is a guarded consumer called on the freshly computed object
RetriedConsumer ==
    /\ FreshlyComputed
    /\ nops' = nops + 1
    /\ last'.op \in GuardedConsumers

\* C16: a call of mapDiff, plotNormDiff, plotNormHist, writeStatistics or
\* writeDiff that is rejected for want of calc_differences changes neither the
\* object nor any file, and the same call made right after a completed
\* calc_differences succeeds.
C16_RejectedThenRetried ==
    [][/\ RejectionKeepsState
       /\ RetriedConsumer => last'.outcome = "ok"]_vars

\* C16 for clouds of at least one point and the consumers other than mapDiff
C16_RejectedThenRetriedNonEmpty ==
    [][/\ RejectionKeepsState
       /\ (RetriedConsumer /\ size > 0 /\ last'.op # "mapDiff")
             => last'.outcome = "ok"]_vars

\* C16, reached: on clouds of at least one point mapDiff, called right after
\* a completed calc_differences, died of the keywords Map_Diff does not take,
\* no file written
C16_MapDiffRetryRaises ==
    /\ size > 0
    /\ last.op = "mapDiff"
    /\ last.calc_before
    /\ HasKey(diffs, "Distance")
    /\ last.outcome = "TypeError"
    /\ statsFile = NoStats
    /\ diffFile = NoDiff
    /\ cloudFile = NoCloud

\* C16, reached: on two empty clouds writeStatistics was rejected, then
\* calc_differences completed, and the repeated writeStatistics died of a
\* division by zero after writing the first four rows
C16_RetryFailsOnEmptyClouds ==
    /\ nops = 3
    /\ size = 0
    /\ last.op = "writeStatistics"
    /\ last.calc_before
    /\ last.outcome = "ZeroDivisionError"
    /\ statsFile.state = "partial"
    /\ diffFile = NoDiff
    /\ cloudFile = NoCloud
    /\ Len(diffs) = Len(BaseKeys)


(***************************************************************************)
(* C17: the run of three points                                            *)
(***************************************************************************)
\* v is the square root of 1/8, which lies between 0.353 and 0.354
IsRootOfEighth(v) ==
    /\ v.t = "sqrt"
    /\ 8 * v.m = v.d * Pow10(v.e)
    /\ 353 * 353 * v.d * Pow10(v.e) <= v.m * 1000000
    /\ v.m * 1000000 <= 354 * 354 * v.d * Pow10(v.e)

\* C17: on three points with the same coordinates and normals and the
\* distances 1.0, 2.0, NaN in one cloud and 1.0, 2.5, NaN in the other,
\* calc_differences leaves Distance = [0.0, 0.5, NaN] and the NaN modes
\* 0, 0, 3, and writeStatistics computes for the Distance differences the
\* mean 0.25, the median 0.25 and the standard deviation sqrt(0.125).
C17_ThreePointRun ==
    /\ (last.op = "calc_differences" /\ last.outcome = "ok") =>
          /\ Get(diffs, "Distance") = <<Zero, Num(5, 1), NaN>>
          /\ SubSeq(nan_mode, 1, 3) = <<0, 0, 3>>
          /\ ~last.calc_before => nan_mode = <<0, 0, 3>>
    /\ StatsComplete =>
          \E i \in 1..(Len(diffs) - 1) :
              /\ Keys(diffs)[i] = "Distance"
              /\ statsFile.mean[i + 1] = Num(25, 2)
              /\ statsFile.median[i + 1] = Num(25, 2)
              /\ IsRootOfEighth(statsFile.std_dev[i + 1])

\* C17, reached with NumPy 1: the summary of the three points is written
C17_ThreePointRunSummarised ==
    /\ StatsComplete
    /\ size = 3
    /\ Get(diffs, "Distance") = <<Zero, Num(5, 1), NaN>>
    /\ nan_mode = <<0, 0, 3>>
    /\ statsFile.mean[8] = Num(25, 2)

\* C17, reached with NumPy 2: the differences and the summary of the three
\* points are the stated ones, the three NaN modes are None
C17_ModesNoneUnderNumPyTwo ==
    /\ StatsComplete
    /\ input.numpy = 2
    /\ size = 3
    /\ Get(diffs, "Distance") = <<Zero, Num(5, 1), NaN>>
    /\ nan_mode = <<NoMode, NoMode, NoMode>>
    /\ statsFile.mean[8] = Num(25, 2)
    /\ statsFile.median[8] = Num(25, 2)


(***************************************************************************)
(* C18: the comparison is positional                                       *)
(***************************************************************************)
\* the two input arrays the differences of key K are taken from
SourcesOf(K) ==
    CASE K = "Spread1" -> [v1 |-> input.cl_spread.a1, v2 |-> input.re_spread.a1]
      [] K = "Spread2" -> [v1 |-> input.cl_spread.a2, v2 |-> input.re_spread.a2]
      [] K = "NumSamples1" ->
            [v1 |-> input.cl_samples.a1, v2 |-> input.re_samples.a1]
      [] K = "NumSamples2" ->
            [v1 |-> input.cl_samples.a2, v2 |-> input.re_samples.a2]
      [] OTHER -> [v1 |-> CCPy4dOperands(old, K).v1,
                   v2 |-> CCPy4dOperands(old, K).v2]

\* C18: on two clouds of the same length every output at index i is a fixed
\* function of the two clouds' values at index i alone: diffs[K][i] is the
\* absolute difference of the two sources of K at i, nan_mode[i] the entry of
\* switch for the two distances at i, slopes[i] and aspects[i] the angles of the two
\* normals at i; in the earlier class diffs[K][i] is sigDiff of the two
\* sources at i.
C18_OutputsArePositional ==
    SameLength =>
        /\ \A j \in 1..Len(diffs) : \A i \in 1..Len(diffs[j].a) :
              diffs[j].a[i] = Abs(Sub(SourcesOf(diffs[j].k).v1[i],
                                      SourcesOf(diffs[j].k).v2[i]))
        /\ calc =>
              \A i \in 1..size :
                  /\ nan_mode[i] = switch(StrPair(IsNaN(cl.dist[i]),
                                                  IsNaN(re.dist[i])))
                  /\ slopes[i] = getSlope(transform(re.normals[i], cl.normals[i]))
                  /\ aspects[i] = getAspect(transform(re.normals[i], cl.normals[i]))
        /\ (last.op = "compareCC_Py4d.calc_differences" /\ last.outcome = "ok") =>
              \A i \in 1..old.size :
                  /\ \A j \in 1..Len(old.diffs) :
                        old.diffs[j].a[i] =
                            sigDiff(SourcesOf(old.diffs[j].k).v1[i],
                                    SourcesOf(old.diffs[j].k).v2[i], DefaultR)
                  /\ old.slopes[i] =
                        getSlope(transform(old.re.normals[i], old.cl.normals[i]))
                  /\ old.aspects[i] =
                        getAspect(transform(old.re.normals[i], old.cl.normals[i]))

\* C18, reached: three points whose distance differences are not all the
\* same have been compared, spread included
C18_UnequalPointsCompared ==
    /\ SameLength
    /\ calc
    /\ size = 3
    /\ HasKey(diffs, "Spread2")
    /\ \E i \in 1..3 : \E k \in 1..3 :
          /\ Get(diffs, "Distance")[i] # Get(diffs, "Distance")[k]
          /\ re.dist[i] # re.dist[1]


(***************************************************************************)
(* C19: sigDiff of a value with itself                                     *)
(***************************************************************************)
\* C19: for every a that is not NaN and every precision, sigDiff(a, a, r=p)
\* is 0, in the scalar form and in the indexed form; for a = NaN it is NaN.
C19_SelfDifferenceZeroUnlessNaN ==
    (sig.form # "none" /\ sig.a = sig.b) =>
        IF IsNaN(sig.a) THEN IsNaN(sig.res) ELSE Float(sig.res) = Zero

\* C19 as stated, for every a of the input domain, NaN included
C19_SelfDifferenceZero ==
    (sig.form # "none" /\ sig.a = sig.b) => Float(sig.res) = Zero

\* C19, reached: the indexed form applied to 2.5 and 2.5 with the default
\* precision returned 0
C19_SameValueCompared ==
    /\ sig.form = "indexed"
    /\ sig.a = Num(25, 1)
    /\ sig.b = Num(25, 1)
    /\ sig.r = DefaultR
    /\ sig.res = IntZero


(***************************************************************************)
(* C20: reading the per-point table back                                   *)
(* csv.reader with the same convention: an unquoted field is converted     *)
(* with float(), a quoted field is returned as its text                    *)
(***************************************************************************)
ReadField(f) ==
    IF f.quoted THEN [kind |-> "str", str |-> f.text, val |-> Zero]
    ELSE [kind |-> "float", str |-> <<>>, val |-> ParseFloat(f.text)]

AsFloat(v) == [kind |-> "float", str |-> <<>>, val |-> v]
AsText(t) == [kind |-> "str", str |-> t, val |-> Zero]

\* the field read back is the value v that was written
Recovered(v, f) ==
    IF v.t = "none" THEN ReadField(f).kind = "none"
    ELSE ReadField(f) = AsFloat(v)

\* writeDiff was the last call and wrote the whole table
DiffComplete ==
    /\ last.op = "writeDiff"
    /\ last.outcome = "ok"
    /\ diffFile.state = "complete"

HeaderRecovered ==
    /\ Len(diffFile.head_line) = Len(diffFile.header)
    /\ \A j \in 1..Len(diffFile.header) :
          ReadField(diffFile.head_line[j]) = AsText(<<diffFile.header[j]>>)

\* what reading the table back gives: the labels of the header and the rows
\* in the order written; every float, NaN included, is read back as the
\* float written, the NaN mode as the float of the same value, and an angle
\* or a NaN mode that is None as the empty text.
C20_TableReadBack ==
    DiffComplete =>
        /\ HeaderRecovered
        /\ Len(diffFile.rows) = size
        /\ \A i \in 1..Len(diffFile.rows) :
              LET r == diffFile.rows[i] IN
              /\ Len(r.line) = Len(diffFile.header)
              /\ \A c \in 1..Len(r.vals) :
                    IF r.vals[c].t = "none"
                    THEN ReadField(r.line[c]) = AsText(<<>>)
                    ELSE Recovered(r.vals[c], r.line[c])
              /\ ReadField(r.line[Len(r.line)]) =
                    IF r.nan_mode = NoMode THEN AsText(<<>>)
                    ELSE AsFloat(Num(r.nan_mode, 0))

\* C20: reading the table written by writeDiff back gives the labels of the
\* header and the same N rows in the order and with the columns written, and
\* every value, NaN differences and angles that are None included, is read
\* back equal to the value written.
C20_EveryValueRecovered ==
    DiffComplete =>
        /\ HeaderRecovered
        /\ Len(diffFile.rows) = size
        /\ \A i \in 1..Len(diffFile.rows) :
              LET r == diffFile.rows[i] IN
              /\ Len(r.line) = Len(diffFile.header)
              /\ \A c \in 1..Len(r.vals) : Recovered(r.vals[c], r.line[c])
              /\ ReadField(r.line[Len(r.line)]) = AsFloat(Num(r.nan_mode, 0))

\* reached: a table with a NaN difference and a difference of 2e-21, written
\* in exponent notation, is read back
C20_NaNAndTinyReadBack ==
    /\ DiffComplete
    /\ \E i \in 1..Len(diffFile.rows) : \E c \in 1..Len(diffFile.rows[i].vals) :
          /\ IsNaN(diffFile.rows[i].vals[c])
          /\ diffFile.rows[i].line[c].text = <<"n", "a", "n">>
    /\ \E i \in 1..Len(diffFile.rows) : \E c \in 1..Len(diffFile.rows[i].vals) :
          /\ diffFile.rows[i].vals[c] = Tiny(2)
          /\ diffFile.rows[i].line[c].text = <<"2", "e", "-", "2", "1">>

\* C20, reached: a row whose angles are None is written as empty quoted
\* fields; they are read back as empty texts, not as None
C20_NoneReadBackAsEmptyText ==
    /\ DiffComplete
    /\ \E i \in 1..Len(diffFile.rows) :
          LET r == diffFile.rows[i]
              n == Len(r.vals)
          IN  /\ r.vals[n] = None
              /\ ReadField(r.line[n]) = AsText(<<>>)

\* C20, reached: calc_differences ran to its end on clouds of the same length
\* under NumPy 2, every float of a row is read back, and the NaN mode, which
\* is None, is read back as the empty text
C20_NoneModeReadBackAsEmptyText ==
    /\ DiffComplete
    /\ input.numpy = 2
    /\ SameLength
    /\ \E i \in 1..Len(diffFile.rows) :
          LET r == diffFile.rows[i] IN
          /\ \A c \in 1..Len(r.vals) :
                r.vals[c].t # "none" /\ Recovered(r.vals[c], r.line[c])
          /\ r.nan_mode = NoMode
          /\ ReadField(r.line[Len(r.line)]) = AsText(<<>>)


(***************************************************************************)
(* C21: Py4d_M3C2.read by extension                                        *)
(***************************************************************************)
\* C21: read hands a path ending in .las or .laz to the LAS reader, a path
\* ending in .xyz or .txt to the ASCII reader, and quits on any other path.
C21_FourExtensionsRead ==
    sig.form = "read" =>
        LET ext == PathSuffix(sig.path) IN
        /\ ext \in { <<".", "l", "a", "s">>, <<".", "l", "a", "z">> }
              => sig.outcome = "read_from_las"
        /\ ext \in { <<".", "x", "y", "z">>, <<".", "t", "x", "t">> }
              => sig.outcome = "read_from_xyz"
        /\ ext \notin { <<".", "l", "a", "s">>, <<".", "l", "a", "z">>,
                        <<".", "x", "y", "z">>, <<".", "t", "x", "t">> }
              => sig.outcome = "quit"

\* C21, reached: read was called on out.laz, printed the message and quit
C21_LazRejected ==
    /\ sig.form = "read"
    /\ sig.path = <<"o", "u", "t", ".", "l", "a", "z">>
    /\ sig.outcome = "quit"

\* C21, reached: read was called on out.txt, printed the message and quit
C21_TxtRejected ==
    /\ sig.form = "read"
    /\ sig.path = <<"o", "u", "t", ".", "t", "x", "t">>
    /\ sig.outcome = "quit"


(***************************************************************************)
(* C28: the ASCII file of Py4d_M3C2 read back                              *)
(***************************************************************************)
\* the column read_xyz returns under the name K
ColumnRead(K) == Get(sig.back.dc, K)
\* the values written for the points of the cloud, picked by field
Written(field, c) == [i \in 1..Len(sig.cloud) |-> sig.cloud[i][field][c]]

\* C28: every line written by write_to_xyz has as many fields as the header
\* names columns, and read_xyz returns under NormalX, NormalY, NormalZ the
\* normals written and under M3C2__distance and distance__uncertainty the
\* distances and the lodetection written.
C28_XyzColumnsMatchHeader ==
    sig.form = "read_xyz" =>
        /\ \A i \in 1..Len(sig.file.rows) :
              Len(sig.file.rows[i]) = Len(sig.file.header)
        /\ ColumnRead("NormalX") = Written("normal", 1)
        /\ ColumnRead("NormalY") = Written("normal", 2)
        /\ ColumnRead("NormalZ") = Written("normal", 3)
        /\ ColumnRead("M3C2__distance") =
              [i \in 1..Len(sig.cloud) |-> sig.cloud[i].dist]
        /\ ColumnRead("distance__uncertainty") =
              [i \in 1..Len(sig.cloud) |-> sig.cloud[i].lod]

\* C28, reached: a file of two points was written with twelve fields per line
\* under a header of ten names; read back, NormalX and NormalY hold the two
\* sample counts and NormalZ the x component of the normal
C28_NormalsHoldSampleCounts ==
    /\ sig.form = "read_xyz"
    /\ Len(sig.cloud) = 2
    /\ Len(sig.file.header) = 10
    /\ \A i \in 1..2 : Len(sig.file.rows[i]) = 12
    /\ ColumnRead("NormalX") = [i \in 1..2 |-> Num(sig.cloud[i].samples[1], 0)]
    /\ ColumnRead("NormalY") = [i \in 1..2 |-> Num(sig.cloud[i].samples[2], 0)]
    /\ ColumnRead("NormalZ") = Written("normal", 1)
    /\ ColumnRead("NormalZ") # Written("normal", 3)
    /\ ColumnRead("M3C2__distance") = [i \in 1..2 |-> sig.cloud[i].dist]


(***************************************************************************)
(* C22: normals without a direction                                        *)
(***************************************************************************)
\* the normal has a NaN component or length zero
Degenerate(v) == VecHasNaN(v) \/ VecIsZero(v)

\* the indexes at which one of the two normals is degenerate
DegenerateAt ==
    { i \in 1..Filled : Degenerate(re.normals[i]) \/ Degenerate(cl.normals[i]) }

\* the values of arr[1..k] at the indexes where both normals have a direction
RECURSIVE OthersOf(_, _)
OthersOf(arr, k) ==
    IF k = 0 THEN <<>>
    ELSE OthersOf(arr, k - 1)
         \o (IF k \in DegenerateAt THEN <<>> ELSE <<arr[k]>>)

\* C22: when calc_differences returns, slopes[i] and aspects[i] are NaN at
\* every index i where the reference normal or the other normal has a NaN
\* component or length zero; the call does not raise on such a point and
\* stores no 0 for it, and the Slope and Aspect columns of the summary are
\* computed from the other points only.
C22_DegenerateNormalsGiveNaN ==
    /\ (last.op = "calc_differences" /\ SameLength) =>
          /\ last.outcome = "ok"
          /\ \A i \in DegenerateAt : IsNaN(slopes[i]) /\ IsNaN(aspects[i])
    /\ (StatsComplete /\ SameLength) =>
          LET n == Len(statsFile.mean)
          IN  /\ statsFile.mean[n] = CellOf("mean", OthersOf(slopes, size))
              /\ statsFile.mean[n - 1] = CellOf("mean", OthersOf(aspects, size))

\* C22, reached: the summary was written for clouds of three points, one of
\* them with a NaN normal in the reference cloud; its slope and aspect are
\* NaN, the two others have angles, and the Slope column is their mean
C22_NaNNormalLeftOut ==
    /\ StatsComplete /\ SameLength /\ size = 3
    /\ \E i \in 1..3 :
          /\ DegenerateAt = { i }
          /\ VecHasNaN(re.normals[i])
          /\ IsNaN(slopes[i]) /\ IsNaN(aspects[i])
    /\ statsFile.mean[Len(statsFile.mean)].t = "num"

\* C22, reached: a normal of length zero in the other cloud
C22_FlatNormalGivesNaN ==
    /\ last.op = "calc_differences" /\ last.outcome = "ok"
    /\ \E i \in 1..size :
          /\ VecIsZero(cl.normals[i])
          /\ IsNaN(slopes[i]) /\ IsNaN(aspects[i])


(***************************************************************************)
(* C29: the two clouds with their roles exchanged                          *)
(***************************************************************************)
\* nan_mode with the values 1 and 2 exchanged
Exchanged(modes) ==
    [i \in 1..Len(modes) |->
        IF modes[i] = 1 THEN 2 ELSE IF modes[i] = 2 THEN 1 ELSE modes[i]]

\* diffs[K] as calc_differences computes it on the object built with the
\* reference cloud as other cloud and the other cloud as reference
ExchangedDiff(K) ==
    IF K = "Distance" THEN AbsDiff(re.dist, cl.dist)
    ELSE IF K = "LODetection" THEN AbsDiff(re.lod, cl.lod)
    ELSE LET c == CHOOSE j \in 1..6 : BaseKeys[j] = K
         IN  IF c <= 3 THEN AbsDiff(Col(re.pts, c), Col(cl.pts, c))
             ELSE AbsDiff(Col(re.normals, c - 3), Col(cl.normals, c - 3))

\* C29: after the first calc_differences that computed the differences, every
\* array of diffs is, at every index, what calc_differences computes
\* with the two clouds exchanged, and nan_mode is the nan_mode of the
\* exchanged clouds with the values 1 and 2 exchanged (0 and 3 stay).
C29_ExchangedRolesSameDiffs ==
    (/\ last.op = "calc_differences"
     /\ ~last.calc_before
     /\ last.outcome # "ValueError") =>
        /\ \A j \in 1..Len(BaseKeys) :
              Get(diffs, BaseKeys[j]) = ExchangedDiff(BaseKeys[j])
        /\ nan_mode = Exchanged(NanModes(re.dist, cl.dist))

\* C29, reached: the clouds differ in a distance and one point is NaN in the
\* reference cloud only: the difference is not zero and nan_mode holds a 1
\* where the exchanged clouds give a 2
C29_OneSidedNaNExchanged ==
    /\ last.op = "calc_differences" /\ ~last.calc_before /\ last.outcome = "ok"
    /\ \E i \in 1..size :
          /\ nan_mode[i] = 1
          /\ NanModes(re.dist, cl.dist)[i] = 2
    /\ \E i \in 1..size :
          LET d == Get(diffs, "Distance")[i]
          IN  d.t = "num" /\ d # Zero


(***************************************************************************)
(* C24: header and rows of the per-point table                             *)
(***************************************************************************)
DiffWritten == last.op = "writeDiff" /\ last.outcome = "ok" /\ size > 0

\* C24: in the table writeDiff has written, whatever the order of
\* calc_differences, spreadDiff and sampleDiff before it, the header has as
\* many labels as every row has fields, and the label at a position between
\* the coordinates and Aspect is the key of diffs whose value every row holds
\* at that position.
C24_HeaderNamesRowFields ==
    DiffWritten =>
        \A i \in 1..Len(diffFile.rows) :
            /\ Len(diffFile.header) = Len(diffFile.rows[i].line)
            /\ \A k \in 4..(Len(diffFile.header) - 3) :
                  diffFile.rows[i].vals[k] = Get(diffs, diffFile.header[k])[i]

\* C24, reached: spreadDiff ran before calc_differences; the header names
\* Spread1 at the first position after the coordinates, where the rows hold
\* the difference of X, which is not the difference of the spreads
C24_SpreadLabelOverXValue ==
    /\ DiffWritten
    /\ diffFile.header[4] = "Spread1"
    /\ Len(diffFile.header) = Len(diffFile.rows[1].line)
    /\ \E i \in 1..Len(diffFile.rows) :
          /\ diffFile.rows[i].vals[4] = Get(diffs, "X")[i]
          /\ diffFile.rows[i].vals[4] # Get(diffs, "Spread1")[i]


(***************************************************************************)
(* C25: what the flag calc stands for                                      *)
(***************************************************************************)
\* C25: whenever calc is True the computation has completed: diffs holds the
\* eight base keys with one value per point, nan_mode has an entry for every
\* point, and slopes and aspects hold an angle or NaN at every index, also
\* after a calc_differences that raised part-way.
C25_CalcMeansComputed ==
    calc =>
        /\ \A j \in 1..Len(BaseKeys) :
              /\ HasKey(diffs, BaseKeys[j])
              /\ Len(Get(diffs, BaseKeys[j])) = size
        /\ Len(nan_mode) >= size
        /\ ~HasNone(slopes)
        /\ ~HasNone(aspects)

\* C25, reached: calc_differences raised ValueError on clouds of different
\* length; calc is True, diffs has no base key, nan_mode is empty and slopes
\* holds None
C25_FlagSetByFailedCall ==
    /\ last.op = "calc_differences"
    /\ last.outcome = "ValueError"
    /\ calc
    /\ \A j \in 1..Len(BaseKeys) : ~HasKey(diffs, BaseKeys[j])
    /\ nan_mode = <<>>
    /\ size > 0 /\ HasNone(slopes)

\* C25, reached: calc_differences raised IndexError in the loop over the
\* normals; calc is True and the last slope is still None
C25_FlagSetByInterruptedLoop ==
    /\ last.op = "calc_differences"
    /\ last.outcome = "IndexError"
    /\ calc
    /\ HasKey(diffs, "Distance")
    /\ slopes[size].t = "none"


(***************************************************************************)
(* C26: the three NaN percentages                                          *)
(***************************************************************************)
\* C26: in a summary writeStatistics has written for N >= 1 points, each of
\* the three NaN percentages lies between 0 and 100, "Nan-Values in Both" is
\* not larger than either of the two others, and the counts of the modes 1, 2
\* and 3 they are computed from sum to at most N.
C26_PercentagesWithinRange ==
    (StatsComplete /\ size >= 1) =>
        /\ \A k \in 1..3 :
              /\ statsFile.nan_rows[k].pct >= 0
              /\ statsFile.nan_rows[k].pct <= 100 * 100
        /\ statsFile.nan_rows[3].pct <= statsFile.nan_rows[1].pct
        /\ statsFile.nan_rows[3].pct <= statsFile.nan_rows[2].pct
        /\ CountMode(1) + CountMode(2) + CountMode(3) <= size

\* C26, reached: calc_differences ran twice on one point that is NaN in both
\* clouds; nan_mode has two entries for it and every row reads 200.00 %
C26_TwoHundredPercent ==
    /\ StatsComplete
    /\ size = 1
    /\ nan_mode = <<3, 3>>
    /\ \A k \in 1..3 : statsFile.nan_rows[k].pct = 200 * 100


(***************************************************************************)
(* C27: the summary file after a failed writeStatistics                    *)
(***************************************************************************)
\* C27: the file of writeStatistics is never left half-written: it is absent,
\* or it holds the header, the rows Mean, Median and Standard Deviation and
\* the three NaN-percentage rows, also after a call that failed and on clouds
\* without points.
C27_SummaryAllOrNothing ==
    /\ statsFile.state \in { "absent", "complete" }
    /\ statsFile.state = "complete" =>
          /\ Len(statsFile.mean) + 1 = Len(statsFile.header)
          /\ Len(statsFile.nan_rows) = 3

\* C27, reached: writeStatistics on computed clouds without points wrote the
\* header and the three statistics rows and then raised ZeroDivisionError at
\* the first percentage: the file ends after four lines
C27_FileEndsBeforePercentages ==
    /\ last.op = "writeStatistics"
    /\ last.outcome = "ZeroDivisionError"
    /\ calc /\ size = 0
    /\ statsFile.state = "partial"
    /\ Len(statsFile.header) >= 3
    /\ Len(statsFile.mean) + 1 = Len(statsFile.header)
    /\ Len(statsFile.std_dev) + 1 = Len(statsFile.header)
    /\ statsFile.nan_rows = <<>>


(***************************************************************************)
(* C23: the calls of main.py on the Compare object                         *)
(***************************************************************************)
\* C23: in main.py, once the Compare object is built, every call of the
\* sequence names a method the class provides, the computation of the
\* differences is the first call to complete, before any plot, statistics or
\* writer call, and a run that has ended has called writeStatistics and
\* writeCloud.
C23_PipelineReachesWriters ==
    (sig.form = "main" /\ sig.built) =>
        /\ sig.outcome \in { "running", "done" }
        /\ Len(sig.called) >= 1 => sig.called[1] = MainCalls[1]
        /\ sig.pc = "exit" =>
              /\ \E k \in 1..Len(sig.called) : sig.called[k] = "writeStatistics"
              /\ \E k \in 1..Len(sig.called) : sig.called[k] = "writeCloud"

\* C23, reached: both clouds were read and the object was built; the first
\* call, calculate_differences, is not a method of Compare and ended the run
\* with AttributeError before any call completed
C23_FirstCallIsNoMethod ==
    /\ sig.form = "main" /\ sig.built
    /\ sig.reference /\ sig.cloud
    /\ sig.pc = "exit"
    /\ sig.outcome = "AttributeError"
    /\ sig.called = <<>>
    /\ MainCalls[1] \notin CompareMethods
    /\ "calc_differences" \in CompareMethods

(***************************************************************************)
(* C30: file_format, skip and repeat                                       *)
(***************************************************************************)
\* C30: for every file_format, skip and repeat, a run of main.py that has got
\* past the reading of the clouds has read both of them, and a run that ended
\* without building the Compare object ended with the message "File format
\* not supported", also when skip or repeat is set.
C30_CloudsReadOrFormatRejected ==
    sig.form = "main" =>
        /\ sig.built => sig.reference /\ sig.cloud
        /\ (sig.pc = "exit" /\ ~sig.built) =>
              sig.outcome = "File format not supported"

\* C30, reached: skip is set and the file format is csv; nothing was read,
\* no message was printed, and reorder(reference) ended the run with
\* NameError
C30_SkipWithUnknownFormat ==
    /\ sig.form = "main"
    /\ sig.skip /\ sig.file_format = "csv"
    /\ sig.pc = "exit"
    /\ ~sig.reference /\ ~sig.cloud /\ ~sig.built
    /\ sig.outcome = "NameError"

\* C30, reached: neither skip nor repeat is set and the format is known; the
\* run ended in the constructor call of Py4d_M3C2 with TypeError
C30_ConstructorKeywordRejected ==
    /\ sig.form = "main"
    /\ ~sig.skip /\ ~sig.repeat /\ sig.file_format = "laz"
    /\ sig.pc = "exit"
    /\ sig.outcome = "TypeError"

====
